---- MODULE Spec2Model ----
(***************************************************************************)
(* A model of repo_resource: the manifest canonicalizer (Version.standard), *)
(* the revision resolver (getRevision and its retry decorator), the         *)
(* manifest orchestration (Repo.resolve_manifest_include and                *)
(* Repo.update_manifest), the check / in_ entry points, and the working    *)
(* directory and the private key of the process around them.              *)
(*                                                                         *)
(* Python strings are sequences of one-character strings, so that          *)
(* concatenation, lexicographic order and regular expressions are          *)
(* computed and not assumed.  None is a sequence no string equals.         *)
(***************************************************************************)
EXTENDS Integers, Sequences, FiniteSets, TLC

----------------------------------------------------------------------------
(* Strings *)

\* The characters the model uses, in code point order.
Alphabet == <<"\n", " ", "'", "-", ".", "/", "0", "1", "4", "9", ":", "A", "H", "M", "P", "T",
              "_", "a", "b", "c", "d", "e", "f", "g", "h", "m", "p", "r", "s", "t",
              "u", "v", "x", "y", "z">>

CharRank(c) == CHOOSE i \in 1..Len(Alphabet) : Alphabet[i] = c

\* Python's None.
None == <<"None">>

\* Python's str.__lt__.
RECURSIVE StrLess(_, _)
StrLess(s, t) ==
    IF t = <<>> THEN FALSE
    ELSE IF s = <<>> THEN TRUE
    ELSE IF Head(s) = Head(t) THEN StrLess(Tail(s), Tail(t))
    ELSE CharRank(Head(s)) < CharRank(Head(t))

StartsWith(s, prefix) ==
    Len(s) >= Len(prefix) /\ SubSeq(s, 1, Len(prefix)) = prefix

\* Python's `sub in s`.
Contains(s, sub) ==
    \E i \in 0..(Len(s) - Len(sub)) : SubSeq(s, i + 1, i + Len(sub)) = sub

LowerLetters == <<"a", "b", "c", "d", "e", "f", "g", "h", "i", "j", "k", "l", "m",
                  "n", "o", "p", "q", "r", "s", "t", "u", "v", "w", "x", "y", "z">>

UpperLetters == <<"A", "B", "C", "D", "E", "F", "G", "H", "I", "J", "K", "L", "M",
                  "N", "O", "P", "Q", "R", "S", "T", "U", "V", "W", "X", "Y", "Z">>

\* Python's str.upper().
Upper(s) ==
    [i \in 1..Len(s) |->
        IF \E j \in 1..Len(LowerLetters) : LowerLetters[j] = s[i]
        THEN UpperLetters[CHOOSE j \in 1..Len(LowerLetters) : LowerLetters[j] = s[i]]
        ELSE s[i]]

\* n times the character c.
Rep(c, n) == [i \in 1..n |-> c]

RemoveAt(s, i) == SubSeq(s, 1, i - 1) \o SubSeq(s, i + 1, Len(s))

InsertAt(s, i, e) == SubSeq(s, 1, i - 1) \o <<e>> \o SubSeq(s, i, Len(s))

\* The outcome of a call: a returned value, or a raised exception's name.
Ok(v) == [raised |-> FALSE, value |-> v]

Raised(type, msg) == [raised |-> TRUE, value |-> [type |-> type, msg |-> msg]]

\* No call was made yet.
NotRun == Raised("NotRun", <<>>)

----------------------------------------------------------------------------
(* XML elements: a tag, the attributes in document order, the children. *)

Elem(tag, attrs, children) == [tag |-> tag, attrs |-> attrs, children |-> children]

Attr(k, v) == [k |-> k, v |-> v]

HasAttr(e, k) == \E i \in 1..Len(e.attrs) : e.attrs[i].k = k

\* Element.get(key): the attribute's value, or None.
Get(e, k) ==
    IF HasAttr(e, k)
    THEN e.attrs[CHOOSE i \in 1..Len(e.attrs) : e.attrs[i].k = k].v
    ELSE None

\* Python's `x or y` on an optional string: None and "" are falsy.
Falsy(v) == v = None \/ v = <<>>

Or(v, w) == IF Falsy(v) THEN w ELSE v

----------------------------------------------------------------------------
(* Version.standard *)

TAGS == <<"remote", "default", "manifest-server", "project", "extend-project",
          "annotation", "copyfile", "linkfile", "remove-project", "include",
          "superproject", "contactinfo">>

EXCLUDE_ATTRS == {"dest-branch", "upstream"}

\* The sort key of an element whose tag is not in TAGS.
UnknownRank == 999

InTags(tag) == \E i \in 1..Len(TAGS) : TAGS[i] = tag

\* TAGS.index(x.tag) if x.tag in TAGS else 999
TagIndex(tag) ==
    IF InTags(tag) THEN (CHOOSE i \in 1..Len(TAGS) : TAGS[i] = tag) - 1
    ELSE UnknownRank

\* x.get('name') or ""
NameKey(e) == Or(Get(e, "name"), <<>>)

\* The order of the tuples (tag index, name).
KeyLess(a, b) ==
    \/ TagIndex(a.tag) < TagIndex(b.tag)
    \/ TagIndex(a.tag) = TagIndex(b.tag) /\ StrLess(NameKey(a), NameKey(b))

\* for element in root: if element.tag not in TAGS: root.remove(element)
\* The list iterator holds the index i of the next child; a removal shifts
\* the rest of the list down while i still advances.
RECURSIVE FilterLoop(_, _)
FilterLoop(children, i) ==
    IF i > Len(children) THEN children
    ELSE IF ~InTags(children[i].tag) THEN FilterLoop(RemoveAt(children, i), i + 1)
    ELSE FilterLoop(children, i + 1)

\* One insertion of a stable sort: e goes after every element whose key is
\* not greater than its own.
InsertStable(s, e) ==
    LET n == Cardinality({i \in 1..Len(s) : ~KeyLess(e, s[i])})
    IN  SubSeq(s, 1, n) \o <<e>> \o SubSeq(s, n + 1, Len(s))

\* sorted(root, key=...): Python's sort is stable.
RECURSIVE SortedXml(_)
SortedXml(s) ==
    IF s = <<>> THEN <<>>
    ELSE InsertStable(SortedXml(SubSeq(s, 1, Len(s) - 1)), s[Len(s)])

\* The attribute names the model uses, in the order C14N writes them.
AttrOrder == <<"dest-branch", "fetch", "groups", "name", "path", "remote",
               "revision", "upstream">>

AttrRank(k) == CHOOSE i \in 1..Len(AttrOrder) : AttrOrder[i] = k

RECURSIVE SortAttrs(_)
SortAttrs(attrs) ==
    IF attrs = <<>> THEN <<>>
    ELSE LET rest == SortAttrs(SubSeq(attrs, 1, Len(attrs) - 1))
             a == attrs[Len(attrs)]
             n == Cardinality({i \in 1..Len(rest) : AttrRank(rest[i].k) <= AttrRank(a.k)})
         IN  SubSeq(rest, 1, n) \o <<a>> \o SubSeq(rest, n + 1, Len(rest))

KeepAttrs(attrs, exclude) == SelectSeq(attrs, LAMBDA a : a.k \notin exclude)

\* C14N of one element: the attributes sorted, those of exclude dropped, at
\* every depth.
RECURSIVE C14NElem(_, _)
C14NElem(e, exclude) ==
    Elem(e.tag, SortAttrs(KeepAttrs(e.attrs, exclude)),
         [i \in 1..Len(e.children) |-> C14NElem(e.children[i], exclude)])

\* A document: well-formed or not, with or without an XML declaration, with
\* or without white space between the elements, and the root's children.
Doc(wf, decl, ws, elems) == [wf |-> wf, decl |-> decl, ws |-> ws, elems |-> elems]

\* ET.canonicalize(text, strip_text=True, exclude_attrs=exclude): no
\* declaration, no white space, attributes sorted.
Canonicalize(elems, exclude) ==
    Doc(TRUE, FALSE, FALSE, [i \in 1..Len(elems) |-> C14NElem(elems[i], exclude)])

\* Version.standard()
Standard(version) ==
    IF ~version.wf THEN Raised("ParseError", <<>>)
    ELSE Ok(Canonicalize(SortedXml(FilterLoop(version.elems, 1)), EXCLUDE_ATTRS))

----------------------------------------------------------------------------
(* getRevision and its retry decorator *)

GIT_LS_REMOTE_MAX_RETRIES == 3

\* The length SHA1_PATTERN asks for.
ShaLen == 40

HexDigits == {"0", "1", "2", "3", "4", "5", "6", "7", "8", "9",
              "a", "b", "c", "d", "e", "f"}

AllHex(s) == \A i \in 1..Len(s) : s[i] \in HexDigits

\* re.match(r'^[0-9a-f]{40}$', s): `$` matches at the end of the string and
\* also just before a newline that ends the string.
is_sha1(s) ==
    \/ Len(s) = ShaLen /\ AllHex(s)
    \/ Len(s) = ShaLen + 1 /\ s[ShaLen + 1] = "\n" /\ AllHex(SubSeq(s, 1, ShaLen))

sSlash == <<"/">>
sRefsTags == <<"r", "e", "f", "s", "/", "t", "a", "g", "s">>
sRefsHeads == <<"r", "e", "f", "s", "/", "h", "e", "a", "d", "s", "/">>
sPeel == <<"^", "{", "}">>
sHTTP429 == <<"H", "T", "T", "P", " ", "4", "2", "9">>

Query(remote, remoteUrl, project, branch) ==
    [remote |-> remote, remoteUrl |-> remoteUrl, project |-> project, branch |-> branch]

\* headRef: the pattern handed to git ls-remote.
HeadRef(branch) == IF StartsWith(branch, sRefsTags) THEN branch \o sPeel ELSE branch

\* rev: the key looked up in the listing.
RevKey(branch) ==
    IF StartsWith(branch, sRefsTags) THEN HeadRef(branch) ELSE sRefsHeads \o branch

\* The repository a query lists.
ListedUrl(q) == q.remoteUrl \o sSlash \o q.project

\* A listing is a set of [ref, sha] lines, a failure is an error message.
Listing(lines) == [kind |-> "listing", lines |-> lines, msg |-> <<>>]

Failure(msg) == [kind |-> "error", lines |-> {}, msg |-> msg]

\* revDict[rev]: dict() keeps the last line of a ref; a listing names a ref once.
RevDictHas(lines, rev) == \E l \in lines : l.ref = rev

RevDictGet(lines, rev) == (CHOOSE l \in lines : l.ref = rev).sha

\* One run of getRevision's body against the response the listing gets:
\* the outcome, and whether git ls-remote was called.
GetRevisionBody(q, resp) ==
    IF q.remote = None \/ q.project = None \/ q.branch = None
    THEN [out |-> Raised("TypeError", <<>>), listed |-> FALSE]
    ELSE IF is_sha1(q.branch)
    THEN [out |-> Ok(<<q.remote \o sSlash \o q.project, q.branch, q.branch>>),
          listed |-> FALSE]
    ELSE IF q.remoteUrl = None
    THEN [out |-> Raised("TypeError", <<>>), listed |-> FALSE]
    ELSE IF resp.kind = "error"
    THEN [out |-> Raised("GitCommandError", resp.msg), listed |-> TRUE]
    ELSE IF ~RevDictHas(resp.lines, RevKey(q.branch))
    THEN [out |-> Raised("KeyError", <<"'">> \o RevKey(q.branch) \o <<"'">>),
          listed |-> TRUE]
    ELSE [out |-> Ok(<<q.remote \o sSlash \o q.project, q.branch,
                       RevDictGet(resp.lines, RevKey(q.branch))>>),
          listed |-> TRUE]

\* A predicate that retries on every exception.
retry_getRevision_Always(exc) == Ok(TRUE)

\* retry_getRevision(exception): True, or `raise str(exception)`, which is a
\* TypeError since a str is no exception.
retry_getRevision(exc) ==
    IF ~Contains(Upper(exc.msg), sHTTP429) THEN Raised("TypeError", <<>>)
    ELSE Ok(TRUE)

\* A decorator that allows one attempt more.
StopAfterLate(attempt) == attempt > GIT_LS_REMOTE_MAX_RETRIES

\* stop_max_attempt_number: the decorator stops after this attempt.
StopAfter(attempt) == attempt >= GIT_LS_REMOTE_MAX_RETRIES

\* The decorated call's attempt number `attempt`: what the decorator does
\* with the body's outcome.
AttemptStep(q, attempt, resp) ==
    LET body == GetRevisionBody(q, resp)
        reject == retry_getRevision(body.out.value)
    IN  IF ~body.out.raised
        THEN [next |-> "return", result |-> body.out, listed |-> body.listed]
        ELSE IF reject.raised
        THEN [next |-> "raise", result |-> reject, listed |-> body.listed]
        ELSE IF StopAfter(attempt)
        THEN [next |-> "raise", result |-> body.out, listed |-> body.listed]
        ELSE [next |-> "retry", result |-> body.out, listed |-> body.listed]

----------------------------------------------------------------------------
(* Repo.resolve_manifest_include *)

\* The depth at which the interpreter stops a recursion (RecursionError).
RecursionLimit == 4

\* The manifest files below .repo/manifests: a set of [name, doc].
HasFile(files, name) == \E f \in files : f.name = name

File(files, name) == (CHOOSE f \in files : f.name = name).doc

\* Element.iter() without the root: every descendant, in document order.
RECURSIVE IterChildren(_)
IterChildren(children) ==
    IF children = <<>> THEN <<>>
    ELSE <<Head(children)>> \o IterChildren(Head(children).children)
                            \o IterChildren(Tail(children))

\* The same, each entry marked as a child of the root or not.
RECURSIVE IterEntries(_)
IterEntries(children) ==
    IF children = <<>> THEN <<>>
    ELSE LET nested == IterChildren(Head(children).children)
         IN  <<[top |-> TRUE, e |-> Head(children)]>>
             \o [i \in 1..Len(nested) |-> [top |-> FALSE, e |-> nested[i]]]
             \o IterEntries(Tail(children))

\* list.insert(idx, e): idx counts from 0, and past the end it appends.
PyInsert(list, idx, e) ==
    IF idx >= Len(list) THEN Append(list, e) ELSE InsertAt(list, idx + 1, e)

\* for sub_element in reversed(subs): manifest.insert(idx, sub_element)
RECURSIVE InsertReversed(_, _, _)
InsertReversed(list, idx, subs) ==
    IF subs = <<>> THEN list
    ELSE InsertReversed(PyInsert(list, idx, subs[Len(subs)]), idx,
                        SubSeq(subs, 1, Len(subs) - 1))

\* list.remove(e) of an element the list holds.
PyRemove(list, e) == RemoveAt(list, CHOOSE i \in 1..Len(list) :
                                      list[i] = e /\ \A k \in 1..(i - 1) : list[k] # e)

\* resolve_manifest_include(manifest): children are the root's children,
\* snap is list(manifest.iter()) taken at entry, whose entry j (the root is
\* entry 0) is visited with idx = j.
RECURSIVE ResolveInclude(_, _, _)
RECURSIVE ResolveLoop(_, _, _, _, _)
\* A ceiling that returns the tree as it is and raises nothing.
ResolveIncludeSilent(children, files, depth) ==
    IF depth > RecursionLimit THEN Ok(children)
    ELSE ResolveLoop(children, IterEntries(children), 1, files, depth)

\* The interpreter raises RecursionError when the calls nest deeper than its
\* recursion limit.
ResolveInclude(children, files, depth) ==
    IF depth > RecursionLimit THEN Raised("RecursionError", <<>>)
    ELSE ResolveLoop(children, IterEntries(children), 1, files, depth)

ResolveLoop(cur, snap, j, files, depth) ==
    IF j > Len(snap) THEN Ok(cur)
    ELSE IF snap[j].e.tag # "include" THEN ResolveLoop(cur, snap, j + 1, files, depth)
    ELSE LET name == Get(snap[j].e, "name")
         IN  IF name = None THEN Raised("TypeError", <<>>)
             ELSE IF ~HasFile(files, name) THEN Raised("FileNotFoundError", name)
             ELSE IF ~File(files, name).wf THEN Raised("ParseError", name)
             ELSE LET sub == ResolveInclude(File(files, name).elems, files, depth + 1)
                  IN  IF sub.raised THEN sub
                      ELSE LET subs == SelectSeq(IterChildren(sub.value),
                                                 LAMBDA x : x.tag # "manifest")
                               spliced == InsertReversed(cur, j, subs)
                           IN  IF ~snap[j].top THEN Raised("ValueError", <<>>)
                               ELSE ResolveLoop(PyRemove(spliced, snap[j].e),
                                                snap, j + 1, files, depth)

----------------------------------------------------------------------------
(* Repo.update_manifest, up to the pool *)

\* A dict is a set of [k, v] with one entry per key.
DictHas(d, k) == \E x \in d : x.k = k

DictGet(d, k) == (CHOOSE x \in d : x.k = k).v

\* dict.get(k): None when absent.
DictGetOrNone(d, k) == IF DictHas(d, k) THEN DictGet(d, k) ELSE None

DictSet(d, k, v) == {x \in d : x.k # k} \cup {[k |-> k, v |-> v]}

\* A local variable no assignment has reached.
Unbound == <<"Unbound">>

FindAll(children, tag) == SelectSeq(children, LAMBDA x : x.tag = tag)

\* str.rstrip('/')
RECURSIVE RStripSlash(_)
RStripSlash(s) ==
    IF s # <<>> /\ s[Len(s)] = "/" THEN RStripSlash(SubSeq(s, 1, Len(s) - 1)) ELSE s

IsLetter(c) ==
    \E j \in 1..Len(LowerLetters) : LowerLetters[j] = c \/ UpperLetters[j] = c

sScheme == <<":", "/", "/">>

\* re.match("[a-zA-Z]+://", url)
MatchesScheme(url) ==
    \E n \in 1..Len(url) :
        /\ \A i \in 1..n : IsLetter(url[i])
        /\ StartsWith(SubSeq(url, n + 1, Len(url)), sScheme)

\* The class [a-z-.]
InLastSegClass(c) == c = "-" \/ c = "." \/ \E j \in 1..Len(LowerLetters) : LowerLetters[j] = c

\* Whether '/[a-z-.]*$' matches at position i: `$` is the end of the string,
\* or the place before a newline that ends it.
LastSegAt(s, i) ==
    /\ s[i] = "/"
    /\ \/ \A k \in (i + 1)..Len(s) : InLastSegClass(s[k])
       \/ /\ Len(s) > i /\ s[Len(s)] = "\n"
          /\ \A k \in (i + 1)..(Len(s) - 1) : InLastSegClass(s[k])

\* re.sub('/[a-z-.]*$', '/', s): the leftmost match, taken greedily, becomes '/'.
SubLastSeg(s) ==
    IF \E i \in 1..Len(s) : LastSegAt(s, i)
    THEN LET i == CHOOSE i \in 1..Len(s) :
                      LastSegAt(s, i) /\ \A k \in 1..(i - 1) : ~LastSegAt(s, k)
             greedy == \A k \in (i + 1)..Len(s) : InLastSegClass(s[k])
         IN  SubSeq(s, 1, i) \o (IF greedy THEN <<>> ELSE <<"\n">>)
    ELSE s

\* The URL a remote's fetch attribute stands for.
RemoteUrl(fetch, manifestUrl) ==
    LET url == RStripSlash(fetch)
    IN  IF MatchesScheme(url) THEN url ELSE SubLastSeg(manifestUrl) \o url

\* for r in manifest.findall('remote'): the two dicts after the remotes
\* from position j on, or the exception of a remote without fetch.
RECURSIVE AddRemotes(_, _, _, _, _)
AddRemotes(remotes, j, manifestUrl, urls, revs) ==
    IF j > Len(remotes) THEN [raised |-> FALSE, urls |-> urls, revs |-> revs]
    ELSE LET r == remotes[j]
         IN  IF Get(r, "fetch") = None
             THEN [raised |-> TRUE, urls |-> urls, revs |-> revs]
             ELSE AddRemotes(remotes, j + 1, manifestUrl,
                             DictSet(urls, Get(r, "name"),
                                     RemoteUrl(Get(r, "fetch"), manifestUrl)),
                             IF Get(r, "revision") # None
                             THEN DictSet(revs, Get(r, "name"), Get(r, "revision"))
                             ELSE revs)

\* defaults = manifest.find('default'): the first one, and the two locals
\* it binds.
DefaultsOf(children, revs) ==
    LET ds == FindAll(children, "default")
    IN  IF ds = <<>> THEN [remote |-> Unbound, branch |-> Unbound]
        ELSE [remote |-> Get(ds[1], "remote"),
              branch |-> Or(Get(ds[1], "revision"),
                            DictGetOrNone(revs, Get(ds[1], "remote")))]

InSeq(s, x) == \E i \in 1..Len(s) : s[i] = x

\* list.remove(x) of a value the list holds.
RemoveFirst(s, x) == PyRemove(s, x)

\* for p in manifest.findall('remove-project'): the names, in order.
RemovedProjects(children) ==
    LET ds == FindAll(children, "remove-project")
    IN  [i \in 1..Len(ds) |-> Get(ds[i], "name")]

\* A loop that forgets to use a directive up.
RECURSIVE RemoveLoopAll(_, _, _, _)
RemoveLoopAll(m, j, gone, rp) ==
    IF j > Len(m) THEN gone
    ELSE IF m[j].tag # "project" THEN RemoveLoopAll(m, j + 1, gone, rp)
    ELSE LET hit == InSeq(rp, Get(m[j], "name"))
             gone2 == IF hit THEN gone \cup {j} ELSE gone
         IN  IF rp = <<>> THEN gone2 ELSE RemoveLoopAll(m, j + 1, gone2, rp)

\* for p in manifest.findall('project'): the positions removed from m, where
\* j is the position the loop has come to, gone the positions removed so
\* far and rp the list removed_projects.
RECURSIVE RemoveLoop(_, _, _, _)
RemoveLoop(m, j, gone, rp) ==
    IF j > Len(m) THEN gone
    ELSE IF m[j].tag # "project" THEN RemoveLoop(m, j + 1, gone, rp)
    ELSE LET hit == InSeq(rp, Get(m[j], "name"))
             gone2 == IF hit THEN gone \cup {j} ELSE gone
             rp2 == IF hit THEN RemoveFirst(rp, Get(m[j], "name")) ELSE rp
         IN  IF rp2 = <<>> THEN gone2 ELSE RemoveLoop(m, j + 1, gone2, rp2)

\* s without the positions of gone.
RECURSIVE Without(_, _, _)
Without(s, gone, j) ==
    IF j > Len(s) THEN <<>>
    ELSE (IF j \in gone THEN <<>> ELSE <<s[j]>>) \o Without(s, gone, j + 1)

\* The tree after the remove-project handling.
RemoveProjects(children) ==
    LET m == SelectSeq(children, LAMBDA x : x.tag # "remove-project")
    IN  Without(m, RemoveLoop(m, 1, {}, RemovedProjects(children)), 1)

\* projectRemote, projectBranch of a project: Unbound when the expression
\* reads a local that no default has bound.
ProjectRemote(p, defs) == Or(Get(p, "remote"), defs.remote)

\* A precedence that puts the default before the remote's revision.
ProjectBranchDefaultFirst(p, defs, revs) ==
    Or(Or(Get(p, "revision"), defs.branch), DictGetOrNone(revs, ProjectRemote(p, defs)))

ProjectBranch(p, defs, revs) ==
    Or(Or(Get(p, "revision"), DictGetOrNone(revs, ProjectRemote(p, defs))), defs.branch)

\* The query of one project, or the exception its lookups raise.
ProjectQuery(p, defs, urls, revs) ==
    LET remote == ProjectRemote(p, defs)
        branch == IF remote = Unbound THEN Unbound ELSE ProjectBranch(p, defs, revs)
    IN  IF remote = Unbound \/ branch = Unbound THEN Raised("UnboundLocalError", <<>>)
        ELSE IF ~DictHas(urls, remote) THEN Raised("KeyError", remote)
        ELSE Ok(Query(remote, DictGet(urls, remote), Get(p, "name"), branch))

\* What update_manifest holds when it reaches the pool, or the exception
\* raised before: the two dicts of the Repo, the tree, the defaults, and one
\* query per project left in the tree.
Prepared(exc, urls, revs, manifest, defs, projects) ==
    [exc |-> exc, urls |-> urls, revs |-> revs, manifest |-> manifest,
     defs |-> defs, projects |-> projects]

NoDefaults == [remote |-> Unbound, branch |-> Unbound]

Prepare(r, files) ==
    LET failed(exc, urls, revs) == Prepared(exc, urls, revs, <<>>, NoDefaults, <<>>)
    IN  IF ~HasFile(files, r.name)
        THEN failed(Raised("FileNotFoundError", r.name), r.remote_url, r.remote_revision)
        ELSE IF ~File(files, r.name).wf
        THEN failed(Raised("ParseError", r.name), r.remote_url, r.remote_revision)
        ELSE
        LET inc == ResolveInclude(File(files, r.name).elems, files, 1)
        IN  IF inc.raised THEN failed(inc, r.remote_url, r.remote_revision)
            ELSE
            LET rem == AddRemotes(FindAll(inc.value, "remote"), 1, r.url,
                                  r.remote_url, r.remote_revision)
            IN  IF rem.raised
                THEN failed(Raised("AttributeError", <<>>), rem.urls, rem.revs)
                ELSE
                LET defs == DefaultsOf(inc.value, rem.revs)
                    m == RemoveProjects(inc.value)
                    ps == FindAll(m, "project")
                    qs == [i \in 1..Len(ps) |->
                              ProjectQuery(ps[i], defs, rem.urls, rem.revs)]
                IN  IF \E i \in 1..Len(qs) : qs[i].raised
                    THEN failed(qs[CHOOSE i \in 1..Len(qs) :
                                     qs[i].raised /\ \A k \in 1..(i - 1) : ~qs[k].raised],
                                rem.urls, rem.revs)
                    ELSE Prepared(Ok(TRUE), rem.urls, rem.revs, m, defs,
                                  [i \in 1..Len(qs) |-> qs[i].value])

----------------------------------------------------------------------------
(* Repo.update_manifest: the pool and the substitution *)

DEFAULT_CHECK_JOBS == 2

\* jobs or DEFAULT_CHECK_JOBS
\* A pool with one process more than the jobs asked for.
PoolSizeOver(jobs) == jobs + 1

\* jobs = jobs or DEFAULT_CHECK_JOBS; Pool(jobs)
PoolSize(jobs) == IF jobs = 0 THEN DEFAULT_CHECK_JOBS ELSE jobs

\* Pool.map's chunk size: divmod(len(iterable), len(pool) * 4), rounded up.
ChunkSize(n, size) ==
    (n \div (size * 4)) + (IF n % (size * 4) # 0 THEN 1 ELSE 0)

\* The task numbers 1..n cut into chunks, in order.
RECURSIVE ChunksFrom(_, _, _)
ChunksFrom(first, n, c) ==
    IF first > n THEN <<>>
    ELSE LET last == IF first + c - 1 > n THEN n ELSE first + c - 1
         IN  <<[i \in 1..(last - first + 1) |-> first + i - 1]>>
             \o ChunksFrom(last + 1, n, c)

Chunks(n, size) == IF n = 0 THEN <<>> ELSE ChunksFrom(1, n, ChunkSize(n, size))

\* Element.set(key, value): in place when the attribute exists, else last.
SetAttr(e, k, v) ==
    IF HasAttr(e, k)
    THEN [e EXCEPT !.attrs = [i \in 1..Len(e.attrs) |->
                                 IF e.attrs[i].k = k THEN Attr(k, v) ELSE e.attrs[i]]]
    ELSE [e EXCEPT !.attrs = Append(e.attrs, Attr(k, v))]

\* for url, branch, rev in revisionList: the rev of the first entry whose
\* url and branch are the project's; projectRev keeps its value otherwise.
FindRevision(revisionList, key, branch, projectRev) ==
    IF \E i \in 1..Len(revisionList) :
           revisionList[i][1] = key /\ revisionList[i][2] = branch
    THEN revisionList[CHOOSE i \in 1..Len(revisionList) :
             /\ revisionList[i][1] = key /\ revisionList[i][2] = branch
             /\ \A k \in 1..(i - 1) :
                    ~(revisionList[k][1] = key /\ revisionList[k][2] = branch)][3]
    ELSE projectRev

\* The "Update revisions" loop from position j of the tree m on;
\* projectRev is the local of that name.
RECURSIVE SubstLoop(_, _, _, _, _, _)
SubstLoop(m, j, revisionList, defs, revs, projectRev) ==
    IF j > Len(m) THEN Ok(m)
    ELSE IF m[j].tag # "project"
    THEN SubstLoop(m, j + 1, revisionList, defs, revs, projectRev)
    ELSE LET remote == ProjectRemote(m[j], defs)
             branch == ProjectBranch(m[j], defs, revs)
             rev == FindRevision(revisionList, remote \o sSlash \o Get(m[j], "name"),
                                 branch, projectRev)
         IN  IF rev = Unbound THEN Raised("UnboundLocalError", <<>>)
             ELSE SubstLoop([m EXCEPT ![j] = SetAttr(m[j], "revision", rev)],
                            j + 1, revisionList, defs, revs, rev)

\* Version(ET.canonicalize(ET.tostring(manifest), strip_text=True))
VersionOf(m) == Canonicalize(m, {})

\* The Repo's __version: unset (None) after construction.
VersionText(text) == [set |-> TRUE, text |-> text]

NoVersion == [set |-> FALSE, text |-> Doc(TRUE, FALSE, FALSE, <<>>)]

Failed(fail) == fail # NotRun

\* The end of update_manifest once pool.map is over: map raises the first
\* failure and __version stays; else the revisions are written and the
\* tree becomes the version.
Finish(manifest, defs, revs, results, fail, version) ==
    IF Failed(fail) THEN [version |-> version, out |-> fail]
    ELSE LET sub == SubstLoop(manifest, 1, [i \in 1..Len(results) |-> results[i].value],
                              defs, revs, Unbound)
         IN  IF sub.raised THEN [version |-> version, out |-> sub]
             ELSE [version |-> VersionText(VersionOf(sub.value)), out |-> Ok(TRUE)]

----------------------------------------------------------------------------
(* The canonicalizer's inputs. *)

MaxStdElems == 3

sA == <<"a">>
sB == <<"b">>
sX == <<"x">>
sY == <<"y">>

StdElems ==
    { Elem("remote", <<Attr("name", sA), Attr("fetch", sX)>>, <<>>),
      Elem("project", <<Attr("name", sA), Attr("path", sX)>>, <<>>),
      Elem("project", <<Attr("path", sY), Attr("name", sA), Attr("upstream", sB)>>, <<>>),
      Elem("project", <<Attr("name", sB)>>,
           <<Elem("copyfile", <<Attr("dest-branch", sX)>>, <<>>)>>),
      Elem("default", <<Attr("revision", sA)>>, <<>>),
      Elem("foo", <<Attr("name", sA)>>, <<>>),
      Elem("bar", <<>>, <<>>) }

SeqsUpTo(S, n) == UNION {[1..k -> S] : k \in 0..n}

StdDocs ==
    {Doc(TRUE, d, w, es) : d \in BOOLEAN, w \in BOOLEAN, es \in SeqsUpTo(StdElems, MaxStdElems)}
    \cup {Doc(FALSE, FALSE, FALSE, <<>>)}

Perms(n) == {p \in [1..n -> 1..n] : \A i, j \in 1..n : p[i] = p[j] => i = j}

Permute(d, p) == [d EXCEPT !.elems = [i \in 1..Len(d.elems) |-> d.elems[p[i]]]]

----------------------------------------------------------------------------
(* The resolver's inputs: queries, and what a listing can answer. *)

sR == <<"r">>
sUrl == <<"h", ":", "/", "/", "x">>
sP == <<"p">>
sMain == <<"m">>
sTagV1 == sRefsTags \o <<"/", "v", "1">>
sSha == Rep("a", ShaLen - 1) \o <<"9">>
sC1 == <<"c", "1">>
sC2 == <<"c", "2">>

RevBranches ==
    { sSha, sSha \o <<"\n">>, SubSeq(sSha, 2, ShaLen), Rep("A", ShaLen),
      sMain, sTagV1, None }

RevQueries == {Query(sR, sUrl, sP, b) : b \in RevBranches}

sLower429 == <<"h", "t", "t", "p", " ", "4", "2", "9">>
sAuth == <<"a", "u", "t", "h">>

ErrorMsgs == {sHTTP429, sLower429, sAuth}

Line(ref, sha) == [ref |-> ref, sha |-> sha]

\* What the remote can answer to the listing of branch: the wanted ref at
\* one of two commits, only another ref, nothing, or an error.
ResponsesFor(branch) ==
    {Listing({Line(RevKey(branch), c)}) : c \in {sC1, sC2}}
    \cup {Listing({Line(branch, sC1)}), Listing({})}
    \cup {Failure(m) : m \in ErrorMsgs}

NoResponse == Listing({})

Responses(q) == IF q.branch = None THEN {NoResponse} ELSE ResponsesFor(q.branch)

----------------------------------------------------------------------------
----------------------------------------------------------------------------
(* The orchestration's inputs. *)

MaxProjects == 2

MaxJobs == 1

sManifestUrl == <<"h", ":", "/", "/", "g", "/", "m">>
sDefaultXml == <<"d">>
sAB == <<"a", "/", "b">>
sBC == <<"b", "/", "c">>
sC == <<"c">>
sQ == <<"q">>
sT == <<"t">>
sUrlX == <<"h", ":", "/", "/", "x">>
sUrlY == <<"h", ":", "/", "/", "y">>

\* The commit a repository's listing shows for a ref.
CommitAt(url) == <<"@">> \o url

\* The commit the listing of a query's repository shows for the query's ref.
CommitOf(q) == CommitAt(ListedUrl(q)) \o <<":">> \o q.branch

\* What the remote can answer to a query of the pool.
PoolResponses(q) ==
    IF q.branch = None \/ q.remoteUrl = None THEN {NoResponse}
    ELSE { Listing({Line(RevKey(q.branch), CommitOf(q))}),
           Listing({}), Failure(sHTTP429), Failure(sAuth) }

RemoteAB == Elem("remote", <<Attr("name", sAB), Attr("fetch", sUrlX)>>, <<>>)
RemoteA == Elem("remote", <<Attr("name", sA), Attr("fetch", sUrlY \o sSlash)>>, <<>>)
DefaultA == Elem("default", <<Attr("remote", sA), Attr("revision", sMain)>>, <<>>)

UpdProjects ==
    { Elem("project", <<Attr("name", sC), Attr("remote", sAB)>>, <<>>),
      Elem("project", <<Attr("name", sBC)>>, <<>>),
      Elem("project", <<Attr("name", sQ), Attr("revision", sSha)>>, <<>>),
      Elem("project", <<Attr("name", sQ), Attr("revision", sT), Attr("upstream", sT)>>,
           <<>>) }

OneFile(name, elems) == {[name |-> name, doc |-> Doc(TRUE, TRUE, TRUE, elems)]}

UpdFiles ==
    { OneFile(sDefaultXml, <<RemoteAB, RemoteA, DefaultA>> \o ps) :
        ps \in SeqsUpTo(UpdProjects, MaxProjects) }

\* What `repo manifest` can write as the snapshot update_version reads.
SnapshotDocs ==
    { Doc(TRUE, TRUE, TRUE,
          <<Elem("project", <<Attr("name", sQ), Attr("revision", sSha)>>, <<>>)>>) }

\* Manifests with remove-project directives: two projects named a, told
\* apart by their paths, one named b, and directives for both names.
MaxRemElems == 4

Pinned(name, path) ==
    Elem("project", <<Attr("name", name), Attr("path", path), Attr("revision", sSha)>>,
         <<>>)

RemoveProject(name) == Elem("remove-project", <<Attr("name", name)>>, <<>>)

RemElems ==
    { Pinned(sA, sX), Pinned(sA, sY), Pinned(sB, sX), RemoveProject(sA),
      RemoveProject(sB) }

RemFiles ==
    { OneFile(sDefaultXml, <<RemoteA, DefaultA>> \o es) :
        es \in SeqsUpTo(RemElems, MaxRemElems) }

\* Manifests with includes: A declares two projects, B includes A and
\* declares one, D includes itself, E and F include each other, G is empty.
MaxIncElems == 3

sFileA == <<"A">>
sFileB == <<"B">>
sFileD == <<"D">>
sFileE == <<"E">>
sFileF == <<"F">>
sFileG == <<"G">>
sA1 == <<"a", "1">>
sA2 == <<"a", "2">>
sB1 == <<"b", "1">>

Include(name) == Elem("include", <<Attr("name", name)>>, <<>>)

Named(name) == Elem("project", <<Attr("name", name)>>, <<>>)

IncFiles ==
    OneFile(sFileA, <<Named(sA1), Named(sA2)>>)
    \cup OneFile(sFileB, <<Include(sFileA), Named(sB1)>>)
    \cup OneFile(sFileD, <<Include(sFileD)>>)
    \cup OneFile(sFileE, <<Include(sFileF), Named(sB1)>>)
    \cup OneFile(sFileF, <<Named(sA1), Include(sFileE)>>)
    \cup OneFile(sFileG, <<>>)

IncElems ==
    { Include(sFileA), Include(sFileB), Include(sFileD), Include(sFileE),
      Include(sFileG),
      Elem("remote", <<Attr("name", sR)>>, <<>>),
      Elem("project", <<Attr("name", sP)>>, <<Elem("copyfile", <<>>, <<>>)>>) }

IncTrees == SeqsUpTo(IncElems, MaxIncElems)

\* The payloads of check: the history holds version entries and digest
\* entries, the snapshot is what `repo manifest` writes.
MaxHistory == 2

Sha256(doc) == <<"sha256", doc>>

Entry(key, val) == [key |-> key, val |-> val]

ChkProject == Elem("project", <<Attr("name", sA), Attr("revision", sSha)>>, <<>>)

ChkDocs ==
    { Doc(TRUE, TRUE, TRUE, <<RemoteA, ChkProject>>),
      Doc(TRUE, FALSE, FALSE, <<RemoteA, ChkProject>>),
      Doc(TRUE, TRUE, TRUE, <<ChkProject, RemoteA>>),
      Doc(TRUE, TRUE, TRUE, <<RemoteA>>) }

ChkEntries ==
    {Entry("version", d) : d \in ChkDocs} \cup {Entry("sha256", Sha256(d)) : d \in ChkDocs}

ChkPayloads ==
    { [hasUrl |-> u, hasVersions |-> h # <<>> \/ e, versions |-> h] :
        u \in BOOLEAN, e \in BOOLEAN, h \in SeqsUpTo(ChkEntries, MaxHistory) }

\* The texts of the Versions compared: one manifest written with and
\* without declaration and white space, in two orders, with and without an
\* upstream attribute, and two other manifests.
EqProject(rev) == Elem("project", <<Attr("name", sA), Attr("revision", rev)>>, <<>>)

EqUpstream ==
    Elem("project", <<Attr("name", sA), Attr("revision", sSha), Attr("upstream", sMain)>>,
         <<>>)

EqDocs ==
    { Doc(TRUE, TRUE, TRUE, <<RemoteA, EqProject(sSha)>>),
      Doc(TRUE, FALSE, TRUE, <<RemoteA, EqProject(sSha)>>),
      Doc(TRUE, FALSE, FALSE, <<RemoteA, EqProject(sSha)>>),
      Doc(TRUE, TRUE, TRUE, <<EqProject(sSha), RemoteA>>),
      Doc(TRUE, TRUE, TRUE, <<RemoteA, EqUpstream>>),
      Doc(TRUE, TRUE, TRUE, <<RemoteA, EqProject(sMain)>>),
      Doc(TRUE, TRUE, TRUE, <<RemoteA>>),
      Doc(TRUE, FALSE, FALSE, <<>>) }

\* Manifests for the precedence of remotes and refs: remote a has no
\* revision, remote b has one; the default names either remote, with or
\* without a revision of its own, or there is no default; a project has a
\* remote or not, a revision or not.
MaxPreProjects == 2

RemotePinned ==
    Elem("remote", <<Attr("name", sB), Attr("fetch", sUrlX), Attr("revision", sT)>>, <<>>)

PreDefaults ==
    { <<DefaultA>>,
      <<Elem("default", <<Attr("remote", sB), Attr("revision", sMain)>>, <<>>)>>,
      <<Elem("default", <<Attr("remote", sB)>>, <<>>)>>,
      <<>> }

PreProjects ==
    { Elem("project", <<Attr("name", sC)>> \o r \o v, <<>>) :
        r \in {<<>>, <<Attr("remote", sA)>>, <<Attr("remote", sB)>>},
        v \in {<<>>, <<Attr("revision", sX)>>} }

PreFiles ==
    { OneFile(sDefaultXml, <<RemoteA, RemotePinned>> \o d \o ps) :
        d \in PreDefaults, ps \in SeqsUpTo(PreProjects, MaxPreProjects) }

\* Manifests for the pool: up to MaxPoolProjects projects on the default
\* remote and ref, so that with one job the map cuts chunks of two queries.
MaxPoolProjects == 5

PoolFiles ==
    { OneFile(sDefaultXml, <<RemoteA, DefaultA>> \o [i \in 1..n |-> Named(sC)]) :
        n \in 0..MaxPoolProjects }

\* Manifests for calls in sequence: remote b is pinned, not pinned or not
\* declared; one project, on remote b or on the default remote, or none.
MaxCalls == 2

RemoteB == Elem("remote", <<Attr("name", sB), Attr("fetch", sUrlX)>>, <<>>)

SeqFiles ==
    { OneFile(sDefaultXml, <<RemoteA>> \o b \o <<DefaultA>> \o ps) :
        b \in {<<>>, <<RemoteB>>, <<RemotePinned>>},
        ps \in {<<>>, <<Named(sC)>>,
                <<Elem("project", <<Attr("name", sC), Attr("remote", sB)>>, <<>>)>>} }

\* Manifests with several default elements: remote a has no revision,
\* remote b has one; up to MaxDefaults defaults, each naming either remote
\* with or without a revision of its own; a project has a remote or not, a
\* revision or not.
MaxDefaults == 2

DefDefaults ==
    { DefaultA,
      Elem("default", <<Attr("remote", sB), Attr("revision", sX)>>, <<>>),
      Elem("default", <<Attr("remote", sB)>>, <<>>) }

DefProjects ==
    { Named(sC),
      Elem("project", <<Attr("name", sC), Attr("remote", sA)>>, <<>>),
      Elem("project", <<Attr("name", sC), Attr("revision", sSha)>>, <<>>) }

DefFiles ==
    { OneFile(sDefaultXml, <<RemoteA, RemotePinned>> \o ds \o ps) :
        ds \in SeqsUpTo(DefDefaults, MaxDefaults), ps \in SeqsUpTo(DefProjects, 1) }

\* Manifest URLs whose last path segment has up to MaxSegLen characters out
\* of a lowercase letter, an uppercase letter, a digit, an underscore, a dot
\* and a dash; a remote whose fetch is absolute or relative, with or without
\* a trailing slash; one project on it or none.
MaxSegLen == 2

SegChars == {"m", "M", "1", "_", ".", "-"}

sUrlBase == <<"h", ":", "/", "/", "g", "/">>

UrlManifestUrls == { sUrlBase \o seg : seg \in SeqsUpTo(SegChars, MaxSegLen) }

sR2 == <<"r", "2">>

UrlFetches == { sUrlX, sUrlX \o sSlash, sR2, sR2 \o sSlash \o sSlash }

UrlFiles ==
    { OneFile(sDefaultXml,
              <<Elem("remote", <<Attr("name", sA), Attr("fetch", f)>>, <<>>), DefaultA>>
                  \o ps) :
        f \in UrlFetches, ps \in SeqsUpTo({Named(sC)}, 1) }

\* The payloads of in_: with or without a requested version, the requested
\* text well-formed or not, and a history of texts.
InvalidDoc == Doc(FALSE, FALSE, FALSE, <<>>)

InHistories == SeqsUpTo({Doc(TRUE, TRUE, TRUE, <<RemoteA>>), InvalidDoc}, MaxHistory)

InPayloads ==
    { [hasVersion |-> h, version |-> v, versions |-> vs] :
        h \in BOOLEAN, v \in EqDocs \cup {InvalidDoc}, vs \in InHistories }

VARIABLES
    stdPc, stdIn, stdOut, stdOut2,
    revPc, revQuery, revAttempts, revListings, revResult, revTrace,
    files, repo, upd, pool,
    incPc, incTree, incOut,
    chkPc, chkPayload, chkOut,
    eqPc, eqSelf, eqOther, eqOut,
    seqCalls,
    inPc, inPayload, inEnv, inVersion, inFile, inOut,
    cwd, cwdPc, cwdOp, workdir, oldpwd, initial_path, cwdEntry, cwdTrace, cwdExc, cwdOut,
    cwdCalls,
    keyPc, keyFn, keyConfigured, keyFile, keyAgent, keyAdded, keyExc, keyOut, keyCalls

stdVars == <<stdPc, stdIn, stdOut, stdOut2>>

revVars == <<revPc, revQuery, revAttempts, revListings, revResult, revTrace>>

updVars == <<files, repo, upd, pool>>

incVars == <<incPc, incTree, incOut>>

chkVars == <<chkPc, chkPayload, chkOut>>

eqVars == <<eqPc, eqSelf, eqOther, eqOut>>

inVars == <<inPc, inPayload, inEnv, inVersion, inFile, inOut>>

cwdVars ==
    <<cwd, cwdPc, cwdOp, workdir, oldpwd, initial_path, cwdEntry, cwdTrace, cwdExc, cwdOut,
      cwdCalls>>

keyVars ==
    <<keyPc, keyFn, keyConfigured, keyFile, keyAgent, keyAdded, keyExc, keyOut, keyCalls>>

vars == <<stdVars, revVars, updVars, incVars, chkVars, eqVars, seqCalls, inVars, cwdVars, keyVars>>

----------------------------------------------------------------------------
(* The canonicalizer: Version(T).standard(), then standard() of the result. *)

StdIdle ==
    /\ stdPc = "idle"
    /\ stdIn = Doc(TRUE, FALSE, FALSE, <<>>)
    /\ stdOut = NotRun
    /\ stdOut2 = NotRun

RevIdle ==
    /\ revPc = "idle"
    /\ revQuery = Query(<<>>, <<>>, <<>>, <<>>)
    /\ revAttempts = 0
    /\ revListings = 0
    /\ revResult = NotRun
    /\ revTrace = <<>>

NewRepo(url, name) ==
    [url |-> url, name |-> name, version |-> NoVersion,
     remote_url |-> {}, remote_revision |-> {}]

\* started counts, for each query, the calls of getRevision made for it.
NoPool == [tasks |-> <<>>, queue |-> <<>>, workers |-> <<>>, results |-> <<>>,
           fail |-> NotRun, started |-> <<>>]

NotCalled(pc, jobs) ==
    [pc |-> pc, jobs |-> jobs, entry |-> NoVersion, manifest |-> <<>>,
     defs |-> NoDefaults, out |-> NotRun]

UpdIdle ==
    /\ files = {}
    /\ repo = NewRepo(<<>>, <<>>)
    /\ upd = NotCalled("off", 0)
    /\ pool = NoPool

IncIdle ==
    /\ incPc = "off"
    /\ incTree = <<>>
    /\ incOut = NotRun

NoPayload == [hasUrl |-> FALSE, hasVersions |-> FALSE, versions |-> <<>>]

ChkIdle ==
    /\ chkPc = "off"
    /\ chkPayload = NoPayload
    /\ chkOut = NotRun

\* What is compared with a Version and is no Version.
NotAVersion == [wf |-> FALSE, decl |-> FALSE, ws |-> FALSE, elems |-> <<"str">>]

EqIdle ==
    /\ eqPc = "off"
    /\ eqSelf = NotAVersion
    /\ eqOther = NotAVersion
    /\ eqOut = FALSE

\* The calls of update_manifest that are over.
SeqIdle == seqCalls = 0

\* No file: what <dest_dir>/.repo_manifest.xml is before it is written.
NoFile == [wf |-> FALSE, decl |-> FALSE, ws |-> FALSE, elems |-> <<"absent">>]

NoRequest == [hasVersion |-> FALSE, version |-> NoFile, versions |-> <<>>]

InIdle ==
    /\ inPc = "off"
    /\ inPayload = NoRequest
    /\ inEnv = "none"
    /\ inVersion = NoVersion
    /\ inFile = NoFile
    /\ inOut = NotRun

\* No directory, no Repo and no operation.
CwdIdle ==
    /\ cwd = <<>>
    /\ cwdPc = "off"
    /\ cwdOp = "none"
    /\ workdir = [abs |-> TRUE, path |-> <<>>]
    /\ oldpwd = None
    /\ initial_path = None
    /\ cwdEntry = <<>>
    /\ cwdTrace = <<>>
    /\ cwdExc = NotRun
    /\ cwdOut = NotRun
    /\ cwdCalls = 0

NoAgent == [running |-> FALSE, key |-> FALSE]

KeyIdle ==
    /\ keyPc = "off"
    /\ keyFn = "none"
    /\ keyConfigured = FALSE
    /\ keyFile = FALSE
    /\ keyAgent = NoAgent
    /\ keyAdded = FALSE
    /\ keyExc = NotRun
    /\ keyOut = NotRun
    /\ keyCalls = 0

StdInit ==
    /\ stdPc = "start"
    /\ stdIn \in StdDocs
    /\ stdOut = NotRun
    /\ stdOut2 = NotRun

\* Version(T).standard()
StdStandard ==
    /\ stdPc = "start"
    /\ stdOut' = Standard(stdIn)
    /\ stdPc' = IF stdOut'.raised THEN "raised" ELSE "once"
    /\ UNCHANGED <<cwdVars, keyVars, inVars, seqCalls, eqVars, stdIn, stdOut2, revVars, updVars, incVars, chkVars>>

\* Version(Version(T).standard()).standard()
StdStandardAgain ==
    /\ stdPc = "once"
    /\ stdOut2' = Standard(stdOut.value)
    /\ stdPc' = "twice"
    /\ UNCHANGED <<cwdVars, keyVars, inVars, seqCalls, eqVars, stdIn, stdOut, revVars, updVars, incVars, chkVars>>

StdNext == StdStandard \/ StdStandardAgain

InitStd == CwdIdle /\ KeyIdle /\ InIdle /\ SeqIdle /\ EqIdle /\ StdInit /\ RevIdle /\ UpdIdle /\ IncIdle /\ ChkIdle

SpecStd == InitStd /\ [][StdNext]_vars

----------------------------------------------------------------------------
(* One decorated getRevision call: an action per attempt. *)

RevInit ==
    /\ revPc = "calling"
    /\ revQuery \in RevQueries
    /\ revAttempts = 0
    /\ revListings = 0
    /\ revResult = NotRun
    /\ revTrace = <<>>

\* One attempt: the body runs against the response the remote gives, then
\* the decorator returns, raises, or sleeps and goes on to the next attempt.
RevAttempt ==
    /\ revPc = "calling"
    /\ \E resp \in Responses(revQuery) :
         LET step == AttemptStep(revQuery, revAttempts + 1, resp)
         IN  /\ revAttempts' = revAttempts + 1
             /\ revListings' = revListings + (IF step.listed THEN 1 ELSE 0)
             /\ revTrace' = Append(revTrace, IF step.listed THEN resp ELSE NoResponse)
             /\ revResult' = step.result
             /\ revPc' = IF step.next = "retry" THEN "calling" ELSE step.next
    /\ UNCHANGED <<cwdVars, keyVars, inVars, seqCalls, eqVars, revQuery, stdVars, updVars, incVars, chkVars>>

RevNext == RevAttempt

InitRev == CwdIdle /\ KeyIdle /\ InIdle /\ SeqIdle /\ EqIdle /\ StdIdle /\ UpdIdle /\ IncIdle /\ ChkIdle /\ RevInit

SpecRev == InitRev /\ [][RevNext]_vars

----------------------------------------------------------------------------
(* Repo.update_manifest on a Repo: one call, after an update_version or not. *)

UpdInit ==
    /\ files \in UpdFiles
    /\ repo = NewRepo(sManifestUrl, sDefaultXml)
    /\ upd \in {NotCalled("idle", jobs) : jobs \in 0..MaxJobs}
    /\ pool = NoPool

\* Repo.update_version(): __version becomes the snapshot `repo manifest` wrote.
RepoUpdateVersion ==
    /\ upd.pc = "idle"
    /\ ~repo.version.set
    /\ \E snapshot \in SnapshotDocs :
         repo' = [repo EXCEPT !.version = VersionText(snapshot)]
    /\ UNCHANGED <<cwdVars, keyVars, inVars, seqCalls, eqVars, files, upd, pool, stdVars, revVars, incVars, chkVars>>

IdleWorker == [chunk |-> <<>>, attempt |-> 0]

\* update_manifest(jobs) up to pool.map: the tree is read and flattened, the
\* remotes and defaults collected, the removals applied, one query built
\* per project, and the queries handed to a pool of workers.
UpdStart ==
    /\ upd.pc = "idle"
    /\ LET prep == Prepare(repo, files)
           n == Len(prep.projects)
       IN  /\ repo' = [repo EXCEPT !.remote_url = prep.urls,
                                   !.remote_revision = prep.revs]
           /\ IF prep.exc.raised
              THEN /\ upd' = [upd EXCEPT !.pc = "raised", !.entry = repo.version,
                                         !.out = prep.exc]
                   /\ pool' = pool
              ELSE /\ upd' = [upd EXCEPT !.pc = "pool", !.entry = repo.version,
                                         !.manifest = prep.manifest,
                                         !.defs = prep.defs]
                   /\ pool' = [tasks |-> prep.projects,
                               queue |-> Chunks(n, PoolSize(upd.jobs)),
                               workers |-> [w \in 1..PoolSize(upd.jobs) |-> IdleWorker],
                               results |-> [i \in 1..n |-> NotRun],
                               fail |-> NotRun,
                               started |-> [i \in 1..n |-> 0]]
    /\ UNCHANGED <<cwdVars, keyVars, inVars, seqCalls, eqVars, files, stdVars, revVars, incVars, chkVars>>

\* An idle worker takes the next chunk of the map.
PoolTake(w) ==
    /\ upd.pc = "pool"
    /\ pool.workers[w].chunk = <<>>
    /\ pool.queue # <<>>
    /\ pool' = [pool EXCEPT !.queue = Tail(pool.queue),
                            !.workers[w] = [chunk |-> Head(pool.queue), attempt |-> 0]]
    /\ UNCHANGED <<cwdVars, keyVars, inVars, seqCalls, eqVars, files, repo, upd, stdVars, revVars, incVars, chkVars>>

\* A worker makes one attempt of getRevision on the first task of its chunk:
\* a result ends the task, an exception ends the chunk and is the map's
\* failure if it is the first, a rate limit leads to the next attempt.
PoolAttempt(w) ==
    /\ upd.pc = "pool"
    /\ pool.workers[w].chunk # <<>>
    /\ LET i == Head(pool.workers[w].chunk)
           n == pool.workers[w].attempt + 1
       IN  \E resp \in PoolResponses(pool.tasks[i]) :
             LET step == AttemptStep(pool.tasks[i], n, resp)
                 calls == IF n = 1 THEN pool.started[i] + 1 ELSE pool.started[i]
             IN  pool' =
                   IF step.next = "return"
                   THEN [pool EXCEPT !.results[i] = step.result,
                                     !.started[i] = calls,
                                     !.workers[w] = [chunk |-> Tail(pool.workers[w].chunk),
                                                     attempt |-> 0]]
                   ELSE IF step.next = "raise"
                   THEN [pool EXCEPT !.fail = IF Failed(pool.fail) THEN pool.fail
                                               ELSE step.result,
                                     !.started[i] = calls,
                                     !.workers[w] = IdleWorker]
                   ELSE [pool EXCEPT !.started[i] = calls,
                                     !.workers[w].attempt = n]
    /\ UNCHANGED <<cwdVars, keyVars, inVars, seqCalls, eqVars, files, repo, upd, stdVars, revVars, incVars, chkVars>>

PoolDone ==
    /\ pool.queue = <<>>
    /\ \A w \in 1..Len(pool.workers) : pool.workers[w].chunk = <<>>

\* pool.map is over: update_manifest raises, or writes the revisions and
\* stores the version.
UpdFinish ==
    /\ upd.pc = "pool"
    /\ PoolDone
    /\ LET end == Finish(upd.manifest, upd.defs, repo.remote_revision,
                         pool.results, pool.fail, repo.version)
       IN  /\ repo' = [repo EXCEPT !.version = end.version]
           /\ upd' = [upd EXCEPT !.pc = IF end.out.raised THEN "raised" ELSE "returned",
                                 !.out = end.out]
    /\ UNCHANGED <<cwdVars, keyVars, inVars, seqCalls, eqVars, files, pool, stdVars, revVars, incVars, chkVars>>

UpdNext ==
    \/ RepoUpdateVersion
    \/ UpdStart
    \/ \E w \in 1..Len(pool.workers) : PoolTake(w)
    \/ \E w \in 1..Len(pool.workers) : PoolAttempt(w)
    \/ UpdFinish

InitUpd == CwdIdle /\ KeyIdle /\ InIdle /\ SeqIdle /\ EqIdle /\ StdIdle /\ RevIdle /\ IncIdle /\ ChkIdle /\ UpdInit

SpecUpd == InitUpd /\ [][UpdNext]_vars

----------------------------------------------------------------------------
(* update_manifest on the manifests with remove-project directives. *)

RemInit ==
    /\ files \in RemFiles
    /\ repo = NewRepo(sManifestUrl, sDefaultXml)
    /\ upd = NotCalled("idle", 1)
    /\ pool = NoPool

InitRem == CwdIdle /\ KeyIdle /\ InIdle /\ SeqIdle /\ EqIdle /\ StdIdle /\ RevIdle /\ IncIdle /\ ChkIdle /\ RemInit

SpecRem == InitRem /\ [][UpdNext]_vars

----------------------------------------------------------------------------
(* update_manifest on the manifests for the precedence of remotes and refs. *)

PreInit ==
    /\ files \in PreFiles
    /\ repo = NewRepo(sManifestUrl, sDefaultXml)
    /\ upd = NotCalled("idle", 1)
    /\ pool = NoPool

InitPre == CwdIdle /\ KeyIdle /\ InIdle /\ SeqIdle /\ StdIdle /\ RevIdle /\ IncIdle /\ ChkIdle /\ EqIdle /\ PreInit

SpecPre == InitPre /\ [][UpdNext]_vars

----------------------------------------------------------------------------
(* update_manifest on the manifests with several default elements. *)

DefInit ==
    /\ files \in DefFiles
    /\ repo = NewRepo(sManifestUrl, sDefaultXml)
    /\ upd = NotCalled("idle", 1)
    /\ pool = NoPool

InitDef == CwdIdle /\ KeyIdle /\ InIdle /\ SeqIdle /\ StdIdle /\ RevIdle /\ IncIdle /\ ChkIdle /\ EqIdle /\ DefInit

SpecDef == InitDef /\ [][UpdNext]_vars

----------------------------------------------------------------------------
(* update_manifest on Repos of several manifest URLs. *)

UrlInit ==
    /\ files \in UrlFiles
    /\ repo \in { NewRepo(u, sDefaultXml) : u \in UrlManifestUrls }
    /\ upd = NotCalled("idle", 1)
    /\ pool = NoPool

InitUrl == CwdIdle /\ KeyIdle /\ InIdle /\ SeqIdle /\ StdIdle /\ RevIdle /\ IncIdle /\ ChkIdle /\ EqIdle /\ UrlInit

SpecUrl == InitUrl /\ [][UpdNext]_vars

----------------------------------------------------------------------------
(* update_manifest on the manifests for the pool. *)

PoolInit ==
    /\ files \in PoolFiles
    /\ repo = NewRepo(sManifestUrl, sDefaultXml)
    /\ upd \in {NotCalled("idle", jobs) : jobs \in 0..MaxJobs}
    /\ pool = NoPool

InitPool == CwdIdle /\ KeyIdle /\ InIdle /\ SeqIdle /\ StdIdle /\ RevIdle /\ IncIdle /\ ChkIdle /\ EqIdle /\ PoolInit

SpecPool == InitPool /\ [][UpdNext]_vars

----------------------------------------------------------------------------
(* Calls of update_manifest in sequence on one Repo, the manifest documents
   downloaded anew between two calls. *)

SeqInit ==
    /\ files \in SeqFiles
    /\ repo = NewRepo(sManifestUrl, sDefaultXml)
    /\ upd = NotCalled("idle", 1)
    /\ pool = NoPool
    /\ seqCalls = 0

\* Repo.init() after a call of update_manifest: repo init writes the
\* manifest documents anew; the Repo object keeps its fields.
RepoInitAgain ==
    /\ upd.pc \in {"returned", "raised"}
    /\ seqCalls + 1 < MaxCalls
    /\ seqCalls' = seqCalls + 1
    /\ files' \in SeqFiles
    /\ upd' = NotCalled("idle", upd.jobs)
    /\ pool' = NoPool
    /\ UNCHANGED <<cwdVars, keyVars, inVars, repo, stdVars, revVars, incVars, chkVars, eqVars>>

SeqNext == UpdNext \/ RepoInitAgain

InitSeq == CwdIdle /\ KeyIdle /\ InIdle /\ StdIdle /\ RevIdle /\ IncIdle /\ ChkIdle /\ EqIdle /\ SeqInit

SpecSeq == InitSeq /\ [][SeqNext]_vars

----------------------------------------------------------------------------
(* resolve_manifest_include on a tree. *)

IncInit ==
    /\ files = IncFiles
    /\ repo = NewRepo(<<>>, <<>>)
    /\ upd = NotCalled("off", 0)
    /\ pool = NoPool
    /\ incPc = "start"
    /\ incTree \in IncTrees
    /\ incOut = NotRun

IncResolve ==
    /\ incPc = "start"
    /\ incPc' = "done"
    /\ incOut' = ResolveInclude(incTree, files, 1)
    /\ UNCHANGED <<cwdVars, keyVars, inVars, seqCalls, eqVars, incTree, stdVars, revVars, updVars, chkVars>>

IncNext == IncResolve

InitInc == CwdIdle /\ KeyIdle /\ InIdle /\ SeqIdle /\ EqIdle /\ StdIdle /\ RevIdle /\ ChkIdle /\ IncInit

SpecInc == InitInc /\ [][IncNext]_vars

----------------------------------------------------------------------------
(* check(instream) *)

ChkInit ==
    /\ chkPc = "start"
    /\ chkPayload \in ChkPayloads
    /\ chkOut = NotRun

\* A check that puts the new entry first.
NewVersionsFirst(versions, snapshot) ==
    LET new_version == Entry("sha256", Sha256(snapshot))
    IN  IF \E i \in 1..Len(versions) : versions[i] = new_version
        THEN versions
        ELSE <<new_version>> \o versions

\* What check returns once the snapshot is written: the history, with the
\* snapshot's digest appended when no entry equals it.
NewVersions(versions, snapshot) ==
    LET new_version == Entry("sha256", Sha256(snapshot))
    IN  IF \E i \in 1..Len(versions) : versions[i] = new_version
        THEN versions
        ELSE Append(versions, new_version)

\* check: no url raises; repo init, sync or manifest may fail; else the
\* list of versions is returned.
ChkCheck ==
    /\ chkPc = "start"
    /\ IF ~chkPayload.hasUrl
       THEN chkOut' = Raised("RuntimeError", <<>>) /\ chkPc' = "raised"
       ELSE \/ chkOut' = Raised("Exception", <<>>) /\ chkPc' = "raised"
            \/ \E snapshot \in ChkDocs :
                 /\ chkOut' = Ok([snapshot |-> snapshot,
                                  versions |-> NewVersions(chkPayload.versions, snapshot)])
                 /\ chkPc' = "returned"
    /\ UNCHANGED <<cwdVars, keyVars, inVars, seqCalls, eqVars, chkPayload, stdVars, revVars, updVars, incVars>>

ChkNext == ChkCheck

InitChk == CwdIdle /\ KeyIdle /\ InIdle /\ SeqIdle /\ EqIdle /\ StdIdle /\ RevIdle /\ UpdIdle /\ IncIdle /\ ChkInit

SpecChk == InitChk /\ [][ChkNext]_vars

----------------------------------------------------------------------------
(* Version.__eq__ *)

EqInit ==
    /\ eqPc = "start"
    /\ eqSelf \in EqDocs
    /\ eqOther \in EqDocs \cup {NotAVersion}
    /\ eqOut = FALSE

\* Version.__eq__(self, other)
VersionEq(self, other) ==
    IF other = NotAVersion THEN FALSE ELSE self = other

EqCompare ==
    /\ eqPc = "start"
    /\ eqPc' = "done"
    /\ eqOut' = VersionEq(eqSelf, eqOther)
    /\ UNCHANGED <<cwdVars, keyVars, inVars, seqCalls, eqSelf, eqOther, stdVars, revVars, updVars, incVars, chkVars>>

EqNext == EqCompare

InitEq == CwdIdle /\ KeyIdle /\ InIdle /\ SeqIdle /\ StdIdle /\ RevIdle /\ UpdIdle /\ IncIdle /\ ChkIdle /\ EqInit

SpecEq == InitEq /\ [][EqNext]_vars

----------------------------------------------------------------------------
(* in_(instream, dest_dir) *)

InInit ==
    /\ inPc = "start"
    /\ inPayload \in InPayloads
    /\ inEnv = "none"
    /\ inVersion = NoVersion
    /\ inFile = NoFile
    /\ inOut = NotRun

\* Repo.save_manifest(filename): self.__version.to_file(full_path)
SaveManifest(version) ==
    IF ~version.set THEN Raised("AttributeError", <<>>) ELSE Ok(version.text)

\* Repo.init() and Repo.sync(version, jobs) set no field of the Repo: the
\* version is what Repo.__init__ left.
AfterSync(requested) == NoVersion

\* in_: no requested version raises; the requested text and the history are
\* put in standard form; init or sync may fail; the manifest is saved and
\* the requested version returned.
In ==
    /\ inPc = "start"
    /\ inPc' = "done"
    /\ IF ~inPayload.hasVersion
       THEN /\ inOut' = Raised("RuntimeError", <<>>)
            /\ UNCHANGED <<inEnv, inVersion, inFile>>
       ELSE IF \/ Standard(inPayload.version).raised
               \/ \E i \in 1..Len(inPayload.versions) :
                     Standard(inPayload.versions[i]).raised
       THEN /\ inOut' = Raised("ParseError", <<>>)
            /\ UNCHANGED <<inEnv, inVersion, inFile>>
       ELSE \E env \in {"init fails", "sync fails", "synced"} :
              /\ inEnv' = env
              /\ IF env # "synced"
                 THEN /\ inOut' = Raised("Exception", <<>>)
                      /\ UNCHANGED <<inVersion, inFile>>
                 ELSE LET version == AfterSync(inPayload.version)
                          saved == SaveManifest(version)
                      IN  /\ inVersion' = version
                          /\ inFile' = IF saved.raised THEN inFile ELSE saved.value
                          /\ inOut' = IF saved.raised THEN saved
                                      ELSE Ok(inPayload.version)
    /\ UNCHANGED <<cwdVars, keyVars, inPayload, seqCalls, stdVars, revVars, updVars, incVars, chkVars, eqVars>>

InNext == In

InitIn == CwdIdle /\ KeyIdle /\ StdIdle /\ RevIdle /\ UpdIdle /\ IncIdle /\ ChkIdle /\ EqIdle /\ SeqIdle /\ InInit

SpecIn == InitIn /\ [][InNext]_vars

----------------------------------------------------------------------------
(* The working directory of the process around check() and the operations of
   a Repo.  A directory is the sequence of the names on its absolute path. *)

MaxOps == 3

sHome == <<"h">>
sOther == <<"o">>

\* check.py's CACHEDIR, which check() creates.
CACHEDIR == <<"c">>

\* The directories that exist: the two the caller can be in, and the work
\* directories that Repo.__init__ has made.
ExistingDirs == {sHome, sOther, <<"w">>, <<"h", "d">>}

\* Repo.__workdir: an absolute path, a path relative to the directory of the
\* construction, or '.'.
Workdirs ==
    { [abs |-> TRUE, path |-> <<"w">>],
      [abs |-> FALSE, path |-> <<"d">>],
      [abs |-> FALSE, path |-> <<>>] }

\* The operations of a Repo that change directory themselves, and those
\* that do it through __manifest_out and go on after it.
TryOps == {"init", "sync", "update_manifest"}
ManifestOutOps == {"update_version", "metadata"}
RepoOps == TryOps \cup ManifestOutOps

\* The directory os.chdir(path) leads to from cur.
Target(cur, path) == IF path.abs THEN path.path ELSE cur \o path.path

\* Path('.').absolute()
Absolute(cur) == cur

\* An operation that leaves the process where it is.
StayInWorkdir(cur, old) == cur

\* Repo.__restore_oldpwd: os.chdir(self.__oldpwd)
RestoreOldpwd(cur, old) == old

CwdInit ==
    /\ cwd \in {sHome, sOther}
    /\ cwdPc = "idle"
    /\ cwdOp = "none"
    /\ workdir \in Workdirs
    /\ oldpwd = None
    /\ initial_path = None
    /\ cwdEntry = <<>>
    /\ cwdTrace = <<>>
    /\ cwdExc = NotRun
    /\ cwdOut = NotRun
    /\ cwdCalls = 0

\* The entry of init, sync, update_manifest or __manifest_out:
\* __change_to_workdir() before the try; a work directory that is not there
\* from here makes os.chdir raise, the directory unchanged.
RepoCall(op) ==
    /\ cwdPc = "idle"
    /\ cwdCalls < MaxOps
    /\ cwdOp' = op
    /\ cwdEntry' = cwd
    /\ cwdCalls' = cwdCalls + 1
    /\ oldpwd' = Absolute(cwd)
    /\ cwdExc' = NotRun
    /\ IF Target(cwd, workdir) \in ExistingDirs
       THEN /\ cwd' = Target(cwd, workdir)
            /\ cwdTrace' = <<Target(cwd, workdir)>>
            /\ cwdPc' = "try"
            /\ cwdOut' = NotRun
       ELSE /\ cwd' = cwd
            /\ cwdTrace' = <<>>
            /\ cwdPc' = "idle"
            /\ cwdOut' = Raised("FileNotFoundError", <<>>)
    /\ UNCHANGED <<workdir, initial_path>>
    /\ UNCHANGED <<keyVars, inVars, seqCalls, eqVars, stdVars, revVars, updVars, incVars, chkVars>>

\* The try block of the operation: the repo command, the parsing, the pool;
\* it ends or raises.
RepoTry ==
    /\ cwdPc = "try"
    /\ cwdOp \in RepoOps
    /\ cwdExc' \in {Ok(None), Raised("Exception", <<>>)}
    /\ cwdPc' = "finally"
    /\ UNCHANGED <<cwd, cwdOp, workdir, oldpwd, initial_path, cwdEntry, cwdTrace, cwdOut, cwdCalls>>
    /\ UNCHANGED <<keyVars, inVars, seqCalls, eqVars, stdVars, revVars, updVars, incVars, chkVars>>

\* finally: self.__restore_oldpwd(); update_version and metadata go on after
\* a __manifest_out that has not raised.
RepoFinally ==
    /\ cwdPc = "finally"
    /\ cwdOp \in RepoOps
    /\ cwd' = RestoreOldpwd(cwd, oldpwd)
    /\ cwdTrace' = Append(cwdTrace, RestoreOldpwd(cwd, oldpwd))
    /\ IF cwdOp \in ManifestOutOps /\ ~cwdExc.raised
       THEN cwdPc' = "tail" /\ cwdOut' = cwdOut
       ELSE cwdPc' = "idle" /\ cwdOut' = cwdExc
    /\ UNCHANGED <<cwdOp, workdir, oldpwd, initial_path, cwdEntry, cwdExc, cwdCalls>>
    /\ UNCHANGED <<keyVars, inVars, seqCalls, eqVars, stdVars, revVars, updVars, incVars, chkVars>>

\* What update_version and metadata do with the snapshot once __manifest_out
\* has returned: they read it, and return or raise.
RepoTail ==
    /\ cwdPc = "tail"
    /\ cwdOut' \in {Ok(None), Raised("Exception", <<>>)}
    /\ cwdPc' = "idle"
    /\ UNCHANGED <<cwd, cwdOp, workdir, oldpwd, initial_path, cwdEntry, cwdTrace, cwdExc, cwdCalls>>
    /\ UNCHANGED <<keyVars, inVars, seqCalls, eqVars, stdVars, revVars, updVars, incVars, chkVars>>

\* check() up to its try: the payload is refused or the key is not accepted,
\* or initial_path is taken.
CheckCall ==
    /\ cwdPc = "idle"
    /\ cwdCalls < MaxOps
    /\ cwdOp' = "check"
    /\ cwdEntry' = cwd
    /\ cwdCalls' = cwdCalls + 1
    /\ cwdTrace' = <<>>
    /\ cwdExc' = NotRun
    /\ \/ /\ cwdPc' = "idle"
          /\ cwdOut' = Raised("RuntimeError", <<>>)
          /\ initial_path' = initial_path
       \/ /\ cwdPc' = "try"
          /\ cwdOut' = NotRun
          /\ initial_path' = Absolute(cwd)
    /\ UNCHANGED <<cwd, workdir, oldpwd>>
    /\ UNCHANGED <<keyVars, inVars, seqCalls, eqVars, stdVars, revVars, updVars, incVars, chkVars>>

\* The try block of check(): cache.mkdir, os.chdir(cache), then the repo
\* commands and the digest; any of them can raise.
CheckTry ==
    /\ cwdPc = "try"
    /\ cwdOp = "check"
    /\ \E failAt \in {"mkdir", "chdir", "repo", "none"} :
         /\ cwd' = IF failAt \in {"mkdir", "chdir"} THEN cwd ELSE CACHEDIR
         /\ cwdTrace' = IF failAt \in {"mkdir", "chdir"} THEN cwdTrace
                        ELSE Append(cwdTrace, CACHEDIR)
         /\ cwdExc' = IF failAt = "none" THEN Ok(None) ELSE Raised("Exception", <<>>)
    /\ cwdPc' = "finally"
    /\ UNCHANGED <<cwdOp, workdir, oldpwd, initial_path, cwdEntry, cwdOut, cwdCalls>>
    /\ UNCHANGED <<keyVars, inVars, seqCalls, eqVars, stdVars, revVars, updVars, incVars, chkVars>>

\* finally: os.chdir(initial_path)
CheckFinally ==
    /\ cwdPc = "finally"
    /\ cwdOp = "check"
    /\ cwd' = initial_path
    /\ cwdTrace' = Append(cwdTrace, initial_path)
    /\ cwdPc' = "idle"
    /\ cwdOut' = cwdExc
    /\ UNCHANGED <<cwdOp, workdir, oldpwd, initial_path, cwdEntry, cwdExc, cwdCalls>>
    /\ UNCHANGED <<keyVars, inVars, seqCalls, eqVars, stdVars, revVars, updVars, incVars, chkVars>>

CwdNext ==
    \/ \E op \in RepoOps : RepoCall(op)
    \/ RepoTry
    \/ RepoFinally
    \/ RepoTail
    \/ CheckCall
    \/ CheckTry
    \/ CheckFinally

InitCwd ==
    KeyIdle /\ InIdle /\ SeqIdle /\ EqIdle /\ StdIdle /\ RevIdle /\ UpdIdle /\ IncIdle
        /\ ChkIdle /\ CwdInit

SpecCwd == InitCwd /\ [][CwdNext]_vars

----------------------------------------------------------------------------
(* The private key around check() and in_(): the temporary key file and the
   key agent of the process. *)

\* The steps of the try block of add_private_key_to_agent, "none" when none
\* of them raises.
AddSteps == {"write", "close", "setup", "add_key", "none"}

\* The file after os.unlink(keypath) is left out: the file as it was.
UnlinkSkipped(file) == file

\* Whether the key file exists after os.unlink(keypath).
Unlink(file) == FALSE

\* The agent after ssh_agent_setup.setup() and add_key(keypath), the try
\* block raising at failAt.
AgentAfter(agent, failAt) ==
    [running |-> agent.running \/ failAt \in {"add_key", "none"},
     key |-> agent.key \/ failAt = "none"]

\* remove_private_key_from_agent(): the agent is killed.
RemovePrivateKey(agent) == NoAgent

KeyInit ==
    /\ keyPc = "idle"
    /\ keyFn = "none"
    /\ keyConfigured = FALSE
    /\ keyFile = FALSE
    /\ keyAgent = NoAgent
    /\ keyAdded = FALSE
    /\ keyExc = NotRun
    /\ keyOut = NotRun
    /\ keyCalls = 0

\* check() or in_() up to the key: the payload is refused, or it has a
\* private key (not None in check, not '_invalid' in in_) or none.
KeyCall(fn) ==
    /\ keyPc = "idle"
    /\ keyCalls < MaxOps
    /\ keyFn' = fn
    /\ keyCalls' = keyCalls + 1
    /\ keyAdded' = FALSE
    /\ keyExc' = NotRun
    /\ \/ /\ keyPc' = "idle"
          /\ keyOut' = Raised("RuntimeError", <<>>)
          /\ keyConfigured' = FALSE
       \/ \E configured \in BOOLEAN :
            /\ keyConfigured' = configured
            /\ keyPc' = IF configured THEN "mkstemp" ELSE "run"
            /\ keyOut' = NotRun
    /\ UNCHANGED <<keyFile, keyAgent>>
    /\ UNCHANGED <<cwdVars, inVars, seqCalls, eqVars, stdVars, revVars, updVars, incVars, chkVars>>

\* add_private_key_to_agent: tempfile.mkstemp makes the file, or raises.
KeyMkstemp ==
    /\ keyPc = "mkstemp"
    /\ \/ /\ keyFile' = TRUE
          /\ keyPc' = "add_try"
          /\ keyOut' = keyOut
       \/ /\ keyFile' = keyFile
          /\ keyPc' = "idle"
          /\ keyOut' = Raised("OSError", <<>>)
    /\ UNCHANGED <<keyFn, keyConfigured, keyAgent, keyAdded, keyExc, keyCalls>>
    /\ UNCHANGED <<cwdVars, inVars, seqCalls, eqVars, stdVars, revVars, updVars, incVars, chkVars>>

\* add_private_key_to_agent: the try block, which writes the key, closes
\* the file, sets the agent up and adds the key; any of them can raise.
KeyAddTry ==
    /\ keyPc = "add_try"
    /\ \E failAt \in AddSteps :
         /\ keyAgent' = AgentAfter(keyAgent, failAt)
         /\ keyAdded' = (failAt = "none")
         /\ keyExc' = IF failAt = "none" THEN Ok(None)
                      ELSE Raised("Exception", <<failAt>>)
    /\ keyPc' = "add_finally"
    /\ UNCHANGED <<keyFn, keyConfigured, keyFile, keyOut, keyCalls>>
    /\ UNCHANGED <<cwdVars, inVars, seqCalls, eqVars, stdVars, revVars, updVars, incVars, chkVars>>

\* add_private_key_to_agent: finally os.unlink(keypath); an exception of
\* the try block goes on through the caller.
KeyAddFinally ==
    /\ keyPc = "add_finally"
    /\ keyFile' = Unlink(keyFile)
    /\ IF keyExc.raised
       THEN keyPc' = "idle" /\ keyOut' = keyExc
       ELSE keyPc' = "run" /\ keyOut' = keyOut
    /\ UNCHANGED <<keyFn, keyConfigured, keyAgent, keyAdded, keyExc, keyCalls>>
    /\ UNCHANGED <<cwdVars, inVars, seqCalls, eqVars, stdVars, revVars, updVars, incVars, chkVars>>

\* The rest of check(): the repo commands and the digest, which end or
\* raise; the agent is left as it is.
KeyCheckRun ==
    /\ keyPc = "run"
    /\ keyFn = "check"
    /\ keyOut' \in {Ok(None), Raised("Exception", <<>>)}
    /\ keyPc' = "idle"
    /\ UNCHANGED <<keyFn, keyConfigured, keyFile, keyAgent, keyAdded, keyExc, keyCalls>>
    /\ UNCHANGED <<cwdVars, inVars, seqCalls, eqVars, stdVars, revVars, updVars, incVars, chkVars>>

\* The try block of in_(): Repo(...), init, sync; it ends or raises.
KeyInTry ==
    /\ keyPc = "run"
    /\ keyFn = "in_"
    /\ \E env \in {"init fails", "sync fails", "synced"} :
         keyExc' = IF env = "synced" THEN Ok(None) ELSE Raised("Exception", <<env>>)
    /\ keyPc' = "in_finally"
    /\ UNCHANGED <<keyFn, keyConfigured, keyFile, keyAgent, keyAdded, keyOut, keyCalls>>
    /\ UNCHANGED <<cwdVars, inVars, seqCalls, eqVars, stdVars, revVars, updVars, incVars, chkVars>>

\* The finally of in_(): the key is removed from the agent when the payload
\* has one; then the exception goes on, or the manifest is saved.
KeyInFinally ==
    /\ keyPc = "in_finally"
    /\ keyAgent' = IF keyConfigured THEN RemovePrivateKey(keyAgent) ELSE keyAgent
    /\ keyOut' = IF keyExc.raised THEN keyExc
                 ELSE IF SaveManifest(AfterSync(NoFile)).raised
                 THEN SaveManifest(AfterSync(NoFile))
                 ELSE Ok(None)
    /\ keyPc' = "idle"
    /\ UNCHANGED <<keyFn, keyConfigured, keyFile, keyAdded, keyExc, keyCalls>>
    /\ UNCHANGED <<cwdVars, inVars, seqCalls, eqVars, stdVars, revVars, updVars, incVars, chkVars>>

KeyNext ==
    \/ \E fn \in {"check", "in_"} : KeyCall(fn)
    \/ KeyMkstemp
    \/ KeyAddTry
    \/ KeyAddFinally
    \/ KeyCheckRun
    \/ KeyInTry
    \/ KeyInFinally

InitKey ==
    CwdIdle /\ InIdle /\ SeqIdle /\ EqIdle /\ StdIdle /\ RevIdle /\ UpdIdle /\ IncIdle
        /\ ChkIdle /\ KeyInit

SpecKey == InitKey /\ [][KeyNext]_vars

----------------------------------------------------------------------------
(* The claims about the canonicalizer. *)

Recognized(d) == \A i \in 1..Len(d.elems) : InTags(d.elems[i].tag)

\* C1: canonicalization is order-insensitive: once standard() has returned
\* for a manifest text T, standard() of every permutation of T's top-level
\* elements returns the same text, also when several elements share tag and
\* name and when T holds unrecognized elements.
C1_OrderInsensitive ==
    stdPc \in {"once", "twice"} =>
        \A p \in Perms(Len(stdIn.elems)) : Standard(Permute(stdIn, p)) = stdOut

\* C2: canonicalization is idempotent: standard() of the text standard()
\* returned is that same text, whatever mix of recognized and unrecognized
\* elements the input holds.
C2_Idempotent == stdPc = "twice" => stdOut2 = stdOut

C12_EqualByCanonical ==
    (eqPc = "done" /\ eqOther # NotAVersion) =>
        (eqOut <=> Standard(eqSelf) = Standard(eqOther))

----------------------------------------------------------------------------
(* The claims about the resolver. *)

\* A listing that fails with the rate-limit message.
Is429(resp) == resp.kind = "error" /\ Contains(resp.msg, sHTTP429)

\* A listing that holds the ref the query looks up.
Finds(resp) == resp.kind = "listing" /\ RevDictHas(resp.lines, RevKey(revQuery.branch))

Listed == revQuery.branch # None /\ ~is_sha1(revQuery.branch)

\* C6: the retry bound: two rate-limit failures and then a listing that
\* holds the ref return that listing's commit; rate-limit failures on all
\* three attempts end in that failure; a query is never listed more than
\* three times.
C6_RetryBound ==
    /\ revListings <= GIT_LS_REMOTE_MAX_RETRIES
    /\ revAttempts <= GIT_LS_REMOTE_MAX_RETRIES
    /\ ( /\ Listed /\ Len(revTrace) = GIT_LS_REMOTE_MAX_RETRIES
         /\ Is429(revTrace[1]) /\ Is429(revTrace[2]) /\ Finds(revTrace[3]) )
       => /\ revPc = "return"
          /\ revResult = Ok(<<revQuery.remote \o sSlash \o revQuery.project,
                              revQuery.branch,
                              RevDictGet(revTrace[3].lines, RevKey(revQuery.branch))>>)
    /\ ( /\ Listed /\ Len(revTrace) = GIT_LS_REMOTE_MAX_RETRIES
         /\ \A i \in 1..GIT_LS_REMOTE_MAX_RETRIES : Is429(revTrace[i]) )
       => /\ revPc = "raise"
          /\ revResult = Raised("GitCommandError", sHTTP429)

C6_Witness ==
    /\ Listed /\ Len(revTrace) = GIT_LS_REMOTE_MAX_RETRIES
    /\ Is429(revTrace[1]) /\ Is429(revTrace[2]) /\ Finds(revTrace[3])
    /\ revPc = "return" /\ revListings = GIT_LS_REMOTE_MAX_RETRIES

\* A first listing that fails, and not with a message that holds "HTTP 429".
FailsWithout429(resp) ==
    \/ resp.kind = "error" /\ ~Contains(resp.msg, sHTTP429)
    \/ resp.kind = "listing" /\ ~RevDictHas(resp.lines, RevKey(revQuery.branch))

\* The same, whatever the letter case of the message.
FailsWithout429AnyCase(resp) ==
    \/ resp.kind = "error" /\ ~Contains(Upper(resp.msg), sHTTP429)
    \/ /\ resp.kind = "listing" /\ ~RevDictHas(resp.lines, RevKey(revQuery.branch))
       /\ ~Contains(Upper(RevKey(revQuery.branch)), sHTTP429)

\* C7 as stated: a failure whose message does not contain "HTTP 429" is not
\* retried: the call has failed after exactly one listing attempt.
C7_NotRetried ==
    (Listed /\ Len(revTrace) >= 1 /\ FailsWithout429(revTrace[1]))
        => revPc = "raise" /\ revAttempts = 1 /\ revListings = 1

\* C7 as amended: a failure whose message does not contain "HTTP 429" in any
\* letter case is not retried: the call has failed after exactly one listing
\* attempt.
C7_NotRetriedAnyCase ==
    (Listed /\ Len(revTrace) >= 1 /\ FailsWithout429AnyCase(revTrace[1]))
        => revPc = "raise" /\ revAttempts = 1 /\ revListings = 1 /\ revResult.raised

C7_Witness ==
    /\ Listed /\ Len(revTrace) = 1 /\ revTrace[1] = Failure(sAuth)
    /\ revPc = "raise" /\ revListings = 1

\* C10: a ref of 40 lowercase hexadecimal characters is returned as the
\* commit id with no listing call, and any other ref is listed.
C10_LiteralBypass ==
    (revPc # "calling" /\ revQuery.branch # None) =>
        IF Len(revQuery.branch) = ShaLen /\ AllHex(revQuery.branch)
        THEN /\ revListings = 0
             /\ revResult = Ok(<<revQuery.remote \o sSlash \o revQuery.project,
                                 revQuery.branch, revQuery.branch>>)
        ELSE revListings >= 1

----------------------------------------------------------------------------
(* The claims about check. *)

\* The entries of the history that hold a manifest text whose canonical form
\* is the canonical form of the snapshot.
SameCanonical(versions, snapshot) ==
    { i \in 1..Len(versions) :
        /\ versions[i].key = "version"
        /\ Standard(versions[i].val) = Standard(snapshot) }

\* C3: novelty is decided modulo canonicalization: when the history given to
\* check holds an entry whose canonical form equals the canonical form of
\* the freshly computed version, the returned list is the history with no
\* entry added, whatever the raw texts.
C3_NoveltyModuloCanonical ==
    ( /\ chkPc = "returned"
      /\ SameCanonical(chkPayload.versions, chkOut.value.snapshot) # {} )
        => chkOut.value.versions = chkPayload.versions

\* The entry check computes for the snapshot.
Computed == Entry("sha256", Sha256(chkOut.value.snapshot))

InHistory(e) == \E i \in 1..Len(chkPayload.versions) : chkPayload.versions[i] = e

\* C18: check returns the versions oldest first: every entry of the history
\* is returned unchanged at its place, the entry computed for the snapshot
\* is the last one when the history does not hold it, and without a history
\* or with an empty one the result has exactly one entry.
C18_OldestFirst ==
    chkPc = "returned" =>
        LET result == chkOut.value.versions
            history == chkPayload.versions
        IN  /\ Len(result) >= Len(history)
            /\ SubSeq(result, 1, Len(history)) = history
            /\ ~InHistory(Computed) => result = Append(history, Computed)
            /\ InHistory(Computed) => result = history
            /\ history = <<>> => Len(result) = 1

\* A history of two entries that does not hold the computed one has been
\* returned with the computed entry third.
C18_Witness ==
    /\ chkPc = "returned"
    /\ Len(chkPayload.versions) = 2
    /\ chkPayload.versions[1] # chkPayload.versions[2]
    /\ ~InHistory(Computed)
    /\ chkOut.value.versions[3] = Computed

----------------------------------------------------------------------------
(* The claims about update_manifest. *)

\* The projects of the stored version, in document order.
VersionProjects == FindAll(repo.version.text.elems, "project")

\* The commit the remote holds for a query: the ref itself when it is a
\* literal commit id, the commit of the ref in the query's repository else.
OwnCommit(q) == IF is_sha1(q.branch) THEN q.branch ELSE CommitOf(q)

\* C4: no partial versions: when a query of the pool has ultimately failed,
\* update_manifest raises and the Repo's version is what it was before the
\* call; the version is not touched while the pool runs; and a version that
\* update_manifest stored holds, for every project, the commit that the
\* project's own query returned.
C4_NoPartialVersion ==
    /\ upd.pc \in {"pool", "raised"} => repo.version = upd.entry
    /\ (upd.pc \in {"returned", "raised"} /\ Failed(pool.fail)) =>
           upd.pc = "raised" /\ upd.out = pool.fail
    /\ upd.pc = "returned" =>
           /\ Len(VersionProjects) = Len(pool.tasks)
           /\ \A i \in 1..Len(pool.tasks) :
                /\ ~pool.results[i].raised
                /\ Get(VersionProjects[i], "revision") = pool.results[i].value[3]

\* C5: results are re-associated to projects by key: in every interleaving
\* of the pool, and also for projects whose remote name + "/" + project name
\* coincide while their remote URLs differ, the revision written into each
\* project is the commit of that project's own query (its remote URL, its
\* name, its ref).
C5_OwnRevision ==
    upd.pc = "returned" =>
        \A i \in 1..Len(pool.tasks) :
            Get(VersionProjects[i], "revision") = OwnCommit(pool.tasks[i])

\* C13: the version that update_manifest stores is in canonical form: its
\* top-level elements follow the order of TAGS and no element has an
\* upstream or dest-branch attribute, that is, the text is its own
\* standard() text.
C13_StoredCanonical ==
    upd.pc = "returned" => Standard(repo.version.text) = Ok(repo.version.text)

\* The top-level elements of the manifest document.
Declared == File(files, repo.name).elems

Present(v) == v # None /\ v # <<>>

\* The revision the manifest pins on a remote, None without one.
PinnedRevision(children, remote) ==
    LET rs == SelectSeq(children, LAMBDA e : e.tag = "remote" /\ Get(e, "name") = remote)
    IN  IF rs = <<>> THEN None ELSE Get(rs[Len(rs)], "revision")

DefaultRemote(children) ==
    LET ds == FindAll(children, "default")
    IN  IF ds = <<>> THEN None ELSE Get(ds[1], "remote")

\* The default ref: the default's revision, or without one the revision
\* pinned on the default's remote.
DefaultRef(children) ==
    LET ds == FindAll(children, "default")
    IN  IF ds = <<>> THEN None
        ELSE IF Present(Get(ds[1], "revision")) THEN Get(ds[1], "revision")
        ELSE PinnedRevision(children, Get(ds[1], "remote"))

EffectiveRemote(children, p) ==
    IF Present(Get(p, "remote")) THEN Get(p, "remote") ELSE DefaultRemote(children)

EffectiveRef(children, p) ==
    IF Present(Get(p, "revision")) THEN Get(p, "revision")
    ELSE IF Present(PinnedRevision(children, EffectiveRemote(children, p)))
    THEN PinnedRevision(children, EffectiveRemote(children, p))
    ELSE DefaultRef(children)

\* C14: the query of every surviving project has as remote the project's
\* remote attribute, else the default's remote, and as ref the project's
\* revision attribute, else the revision pinned on that remote, else the
\* default ref; the revision written back into the project is that of a
\* result for this remote, name and ref.
C14_Precedence ==
    upd.pc \in {"pool", "returned"} =>
        LET ps == FindAll(upd.manifest, "project")
        IN  /\ Len(pool.tasks) = Len(ps)
            /\ \A i \in 1..Len(ps) :
                 /\ pool.tasks[i].remote = EffectiveRemote(Declared, ps[i])
                 /\ pool.tasks[i].project = Get(ps[i], "name")
                 /\ pool.tasks[i].branch = EffectiveRef(Declared, ps[i])
                 /\ upd.pc = "returned" =>
                      \E k \in 1..Len(pool.results) :
                        /\ pool.results[k].value[1]
                             = EffectiveRemote(Declared, ps[i]) \o sSlash \o Get(ps[i], "name")
                        /\ pool.results[k].value[2] = EffectiveRef(Declared, ps[i])
                        /\ Get(VersionProjects[i], "revision") = pool.results[k].value[3]

\* A project on the unpinned remote by default and a project that names the
\* pinned remote, both without a revision of their own, have been resolved.
C14_Witness ==
    /\ upd.pc = "returned"
    /\ Len(pool.tasks) = 2
    /\ FindAll(upd.manifest, "project")
         = <<Elem("project", <<Attr("name", sC)>>, <<>>),
             Elem("project", <<Attr("name", sC), Attr("remote", sB)>>, <<>>)>>
    /\ pool.tasks[1].remote = sA /\ pool.tasks[1].branch = sMain
    /\ pool.tasks[2].remote = sB /\ pool.tasks[2].branch = sT

\* The workers that hold a query.
Busy == {w \in 1..Len(pool.workers) : pool.workers[w].chunk # <<>>}

\* The job count that bounds the pool: 2 when 0 is asked.
JobBound == IF upd.jobs = 0 THEN 2 ELSE upd.jobs

\* The call has gone through the pool and is over.
PoolOver == upd.pc \in {"returned", "raised"} /\ pool.tasks # <<>>

\* Query k has failed and query i comes after it in the same chunk of the
\* map.
LostAfter(k, i) ==
    LET c == ChunkSize(Len(pool.tasks), JobBound)
    IN  /\ k < i /\ (k - 1) \div c = (i - 1) \div c
        /\ pool.started[k] = 1 /\ pool.results[k] = NotRun

\* C15 as stated: never more queries in resolution than the job count (2
\* for 0); every query is dispatched exactly once by the end of the call;
\* no substitution before every query is over.
C15_BoundedPool ==
    /\ Cardinality(Busy) <= JobBound
    /\ \A i \in 1..Len(pool.tasks) : pool.started[i] <= 1
    /\ PoolOver => \A i \in 1..Len(pool.tasks) : pool.started[i] = 1
    /\ PoolOver => PoolDone
    /\ upd.pc = "returned" => \A i \in 1..Len(pool.tasks) : ~pool.results[i].raised

\* C15 as amended: never more queries in resolution than the job count (2
\* for 0); every query is dispatched at most once, exactly once when
\* update_manifest returns, and when it raises the only queries not
\* dispatched are those that follow a failed query in its chunk of the map;
\* no substitution before every query is over.
C15_BoundedPoolChunked ==
    /\ Cardinality(Busy) <= JobBound
    /\ \A i \in 1..Len(pool.tasks) : pool.started[i] <= 1
    /\ PoolOver =>
         \A i \in 1..Len(pool.tasks) :
            \/ pool.started[i] = 1
            \/ upd.pc = "raised" /\ \E k \in 1..Len(pool.tasks) : LostAfter(k, i)
    /\ PoolOver => PoolDone
    /\ upd.pc = "returned" =>
         \A i \in 1..Len(pool.tasks) : pool.started[i] = 1 /\ ~pool.results[i].raised

\* Five queries with one job: update_manifest has raised and the query
\* after the failed one was never dispatched, the others were.
C15_Witness ==
    /\ upd.pc = "raised" /\ upd.jobs = 1 /\ Len(pool.tasks) = 5
    /\ pool.started = <<1, 1, 1, 0, 1>>

\* The number of remove-project directives that name a project.
Directives(children, name) ==
    Cardinality({ i \in 1..Len(children) :
                    children[i].tag = "remove-project" /\ Get(children[i], "name") = name })

\* The rank of the project at position j among the projects of its name.
Rank(children, j) ==
    Cardinality({ i \in 1..j :
                    /\ children[i].tag = "project"
                    /\ Get(children[i], "name") = Get(children[j], "name") })

\* The projects left when each directive has removed the first project of
\* its name that is still there.
Survivors(children) ==
    LET kept == SelectSeq([j \in 1..Len(children) |-> j],
                          LAMBDA j : /\ children[j].tag = "project"
                                     /\ Rank(children, j)
                                            > Directives(children, Get(children[j], "name")))
    IN  [i \in 1..Len(kept) |-> children[kept[i]]]

NameAndPath(ps) == [i \in 1..Len(ps) |-> <<Get(ps[i], "name"), Get(ps[i], "path")>>]

\* C8: removal is at-most-once per directive: of N top-level projects named
\* p and k remove-project directives naming p, update_manifest removes the
\* first min(k, N) in document order, wherever the directives stand; no
\* project of another name is removed, and a directive without a match
\* removes nothing and raises nothing.
C8_RemoveAtMostOnce ==
    /\ upd.pc # "raised"
    /\ upd.pc \in {"pool", "returned"} =>
           FindAll(upd.manifest, "project") = Survivors(Declared)
    /\ upd.pc = "returned" =>
           NameAndPath(VersionProjects) = NameAndPath(Survivors(Declared))

C8_Witness ==
    /\ upd.pc = "returned"
    /\ Len(FindAll(Declared, "project")) = 2
    /\ Directives(Declared, sA) = 1
    /\ Declared[Len(Declared)] = RemoveProject(sA)
    /\ NameAndPath(VersionProjects) = <<<<sA, sY>>>>

----------------------------------------------------------------------------
(* The claims about resolve_manifest_include. *)

IncludeNames(elems) ==
    { Get(elems[i], "name") : i \in {j \in 1..Len(elems) : elems[j].tag = "include"} }

\* The files that n steps of inclusion reach from the files named.
RECURSIVE ReachFrom(_, _, _)
ReachFrom(names, fs, n) ==
    IF n = 0 THEN names
    ELSE ReachFrom(names \cup UNION { IncludeNames(File(fs, f).elems) :
                                        f \in {g \in names : HasFile(fs, g)} },
                   fs, n - 1)

Included(tree, fs) == ReachFrom(IncludeNames(tree), fs, Cardinality(fs))

Acyclic(tree, fs) ==
    \A f \in Included(tree, fs) :
        /\ HasFile(fs, f)
        /\ f \notin ReachFrom(IncludeNames(File(fs, f).elems), fs, Cardinality(fs))

Count(elems, e) == Cardinality({i \in 1..Len(elems) : elems[i] = e})

\* C9: include flattening: after resolve_manifest_include on a manifest
\* whose includes are acyclic, no include element is left in the tree, and
\* every project declared in an included sub-manifest is exactly once among
\* the top-level elements.
C9_Flattened ==
    (incPc = "done" /\ Acyclic(incTree, files)) =>
        /\ ~incOut.raised
        /\ FindAll(incOut.value, "include") = <<>>
        /\ \A f \in Included(incTree, files) :
             \A i \in 1..Len(File(files, f).elems) :
               File(files, f).elems[i].tag = "project" =>
                   Count(incOut.value, File(files, f).elems[i]) = 1

\* C16: include resolution terminates on every input: when the includes
\* form a cycle (a manifest that includes itself, or two that include each
\* other), resolve_manifest_include ends at the ceiling of the recursion
\* depth with an error, and does not return a tree.
C16_CycleFails ==
    (incPc = "done" /\ ~Acyclic(incTree, files)) =>
        incOut = Raised("RecursionError", <<>>)

\* A manifest that includes E, which includes F, which includes E, has
\* failed.
C16_Witness ==
    /\ incPc = "done"
    /\ incTree = <<Include(sFileE)>>
    /\ incOut = Raised("RecursionError", <<>>)

\* The sequence in which every include is replaced, at its place, by the
\* flattened children of its sub-manifest, for includes nested n deep at
\* most.
RECURSIVE Flattened(_, _, _)
Flattened(elems, fs, n) ==
    IF elems = <<>> THEN <<>>
    ELSE (IF Head(elems).tag = "include" /\ n > 0
          THEN Flattened(File(fs, Get(Head(elems), "name")).elems, fs, n - 1)
          ELSE <<Head(elems)>>)
         \o Flattened(Tail(elems), fs, n)

\* C20: include splicing preserves the relative order: after
\* resolve_manifest_include the top-level sequence is the parent's sequence
\* with each include replaced, at its own place, by the flattened top-level
\* children of its sub-manifest in their order, whatever the number of
\* includes and of children; nothing else is added at the top level.
C20_SplicedInPlace ==
    (incPc = "done" /\ Acyclic(incTree, files) /\ ~incOut.raised) =>
        incOut.value = Flattened(incTree, files, Cardinality(files))

----------------------------------------------------------------------------
(* The claims about calls in sequence. *)

\* What update_manifest does on a Repo just constructed, every listing
\* showing the ref asked: the version stored, or the exception.
FreshOutcome(fs) ==
    LET fresh == NewRepo(repo.url, repo.name)
        prep == Prepare(fresh, fs)
    IN  IF prep.exc.raised THEN [version |-> NoVersion, out |-> prep.exc]
        ELSE Finish(prep.manifest, prep.defs, prep.revs,
                    [i \in 1..Len(prep.projects) |->
                        Ok(<<prep.projects[i].remote \o sSlash \o prep.projects[i].project,
                             prep.projects[i].branch, OwnCommit(prep.projects[i])>>)],
                    NotRun, NoVersion)

\* C17: no state is retained between calls: the version that a call of
\* update_manifest stores is the version that a Repo just constructed stores
\* from the same manifest documents and the same remote, also after a call
\* that saw remotes and remote revisions the manifest no longer declares.
C17_NoRetainedState ==
    upd.pc = "returned" =>
        /\ ~FreshOutcome(files).out.raised
        /\ repo.version = FreshOutcome(files).version

----------------------------------------------------------------------------
(* The claims about in_. *)

\* A requested version and a history that are well-formed, and init and
\* sync have succeeded.
Fetched == inPc = "done" /\ inPayload.hasVersion /\ inEnv = "synced"

\* C19: for a valid requested version whose init and sync succeed, in_
\* writes <dest_dir>/.repo_manifest.xml with the text of the requested
\* version and returns the requested version; save_manifest is not reached
\* while the Repo holds no version.
C19_ManifestSaved ==
    Fetched =>
        /\ inVersion.set
        /\ inFile = inPayload.version
        /\ inOut = Ok(inPayload.version)

----------------------------------------------------------------------------
(* The claim about several default elements. *)

HasDefault(children) == FindAll(children, "default") # <<>>

\* The last default element in tree order.
LastDefault(children) ==
    LET ds == FindAll(children, "default")
    IN  ds[Len(ds)]

\* The fallback ref the last default gives: its revision, or without one
\* the revision pinned on its remote.
LastDefaultRef(children) ==
    LET d == LastDefault(children)
    IN  IF Present(Get(d, "revision")) THEN Get(d, "revision")
        ELSE PinnedRevision(children, Get(d, "remote"))

\* C21: when the manifest holds default elements, a project without a
\* remote attribute is queried on the remote of the last default in tree
\* order, and a project with neither a revision of its own nor a revision
\* pinned on its remote is queried at the ref of the last default.
C21_LastDefaultWins ==
    (upd.pc \in {"pool", "returned"} /\ HasDefault(Declared)) =>
        LET ps == FindAll(upd.manifest, "project")
            d == LastDefault(Declared)
        IN  \A i \in 1..Len(ps) :
              /\ ~Present(Get(ps[i], "remote")) =>
                     pool.tasks[i].remote = Get(d, "remote")
              /\ (/\ ~Present(Get(ps[i], "revision"))
                  /\ ~Present(PinnedRevision(Declared, pool.tasks[i].remote))) =>
                     pool.tasks[i].branch = LastDefaultRef(Declared)

----------------------------------------------------------------------------
(* The claim about the URLs of the remotes. *)

\* A URL without its last path segment: what precedes and includes its last
\* slash.
RECURSIVE StripLastSegment(_)
StripLastSegment(url) ==
    IF url = <<>> \/ url[Len(url)] = "/" THEN url
    ELSE StripLastSegment(SubSeq(url, 1, Len(url) - 1))

\* The absolute URL of a fetch value under a manifest URL.
Absolutized(fetch, manifestUrl) ==
    IF MatchesScheme(RStripSlash(fetch)) THEN RStripSlash(fetch)
    ELSE StripLastSegment(manifestUrl) \o RStripSlash(fetch)

\* C22: once update_manifest has collected the remotes, the URL recorded for
\* a remote is its fetch value without trailing slashes when that starts
\* with scheme://, and otherwise the manifest URL without its last path
\* segment followed by the fetch value, whatever characters the last
\* segment of the manifest URL has; the queries carry that URL.
C22_FetchAbsolutized ==
    upd.pc \in {"pool", "returned"} =>
        /\ \A i \in 1..Len(Declared) :
             Declared[i].tag = "remote" =>
                 DictGetOrNone(repo.remote_url, Get(Declared[i], "name"))
                     = Absolutized(Get(Declared[i], "fetch"), repo.url)
        /\ \A i \in 1..Len(pool.tasks) :
             \E j \in 1..Len(Declared) :
                 /\ Declared[j].tag = "remote"
                 /\ Get(Declared[j], "name") = pool.tasks[i].remote
                 /\ pool.tasks[i].remoteUrl
                      = Absolutized(Get(Declared[j], "fetch"), repo.url)

----------------------------------------------------------------------------
(* The claim about the working directory. *)

\* An operation has been called and is over, or only has reading left.
Left == cwdPc \in {"idle", "tail"} /\ cwdOp # "none"

\* C23: once check(), Repo.init, Repo.sync, Repo.update_manifest,
\* Repo.update_version or Repo.metadata has returned or raised, the working
\* directory of the process is the one at the entry of the operation,
\* whatever operations went before and whichever step failed.
C23_CwdRestored == Left => cwd = cwdEntry

\* A sync that raised in the work directory after an earlier operation, and
\* came back.
C23_Witness ==
    /\ cwdPc = "idle"
    /\ cwdOp = "sync"
    /\ cwdCalls = 2
    /\ cwdOut = Raised("Exception", <<>>)
    /\ cwdTrace = <<<<"h", "d">>, sHome>>
    /\ cwd = sHome

----------------------------------------------------------------------------
(* The claim about the private key. *)

\* add_private_key_to_agent is not running.
OutsideAdd == keyPc \in {"idle", "run", "in_finally"}

\* C24: outside add_private_key_to_agent the temporary key file is not on
\* disk, whichever step of it raised or none; and when in_ is over, a key
\* that this call added to the agent is no longer in the agent, whether
\* init and sync succeeded or failed.
C24_KeyNotLeft ==
    /\ OutsideAdd => ~keyFile
    /\ (keyPc = "idle" /\ keyFn = "in_" /\ keyAdded) => ~keyAgent.key

\* An in_ whose key was written and added, and whose sync failed, after a
\* call whose key the agent held.
C24_Witness ==
    /\ keyPc = "idle"
    /\ keyFn = "in_"
    /\ keyCalls = 2
    /\ keyAdded
    /\ keyOut = Raised("Exception", <<"sync fails">>)
    /\ ~keyFile
    /\ keyAgent = NoAgent

====
